---- MODULE Spec2Model ----
(***************************************************************************)
(* Tell My Story: the book exporters of biography_publisher.py (the        *)
(* standalone publisher page) and of biographer.py (the main application's *)
(* sidebar), as a state machine over the page's inputs and the result of   *)
(* the last generator call.                                                *)
(*                                                                         *)
(* Text is a sequence of one-character strings.  A document (HTML, DOCX,   *)
(* PDF) is the sequence of the elements the generator appends, one element *)
(* per html += / doc.add_* / pdf.cell statement, holding the exact text    *)
(* that statement inserts.  Byte strings are named by atoms ("jpgA"); the  *)
(* base64 texts are the real encodings of those names.                     *)
(*                                                                         *)
(* The main application's accounts, stored answers and question banks, and *)
(* the admin dashboard's "Add User" form, are a second state machine over  *)
(* the files of the application and one browser session.                   *)
(* Further groups of variables carry the main page's position, the account *)
(* statistics, backup and restore, the other fields of the data files, and *)
(* the admin dashboard's login; each specification moves the groups of its *)
(* own actions and leaves the others alone.                                *)
(***************************************************************************)
EXTENDS Integers, Sequences, FiniteSets, TLC

VARIABLES
    stories,         \* st.session_state.stories / export_data: the story list
    data_loaded,     \* st.session_state.data_loaded
    book_title,      \* text input "Book Title"
    author_name,     \* text input "Author Name"
    format_style,    \* selectbox "Format Style"
    include_toc,     \* checkbox "Include Table of Contents"
    include_images,  \* checkbox "Include Images"
    cover_choice,    \* radio "Cover Type"
    uploaded_cover,  \* file_uploader "Upload Cover Image": bytes, or NoFile
    out,             \* what the last button click produced in this script run
    earlier,         \* history: what was generated before it in this page view
    markup,          \* a stored answer: a.get("answer", ""), the editor's markup
    stripped,        \* the answer_text made of it for export, or None
    restripped,      \* the answer_text made of that answer_text, or None
    account_files,   \* accounts/{user_id}_account.json: user id -> account record
    accounts_index,  \* accounts/accounts_index.json: its entries in file order
    user_files,      \* user_data_{hash}.json: user id -> the "responses" it holds
    bank_files,      \* question_banks/users/{user_id}: user id -> the custom bank
    logged_in,       \* st.session_state.logged_in
    user_id,         \* st.session_state.user_id
    responses,       \* st.session_state.responses
    app_data_loaded, \* st.session_state.data_loaded of the main application
    current_question_bank,  \* st.session_state.current_question_bank
    current_bank_id, \* st.session_state.current_bank_id
    auth,            \* what the last submitted login or sign-up form produced
    durable,         \* history: the answers whose save returned True
    vignette_files,  \* user_vignettes/{user_id}_vignettes.json: user id -> vignettes
    vignette_manager,  \* st.session_state.vignette_manager, or NoManager
    current_session_index,  \* st.session_state.current_session: index into SESSIONS
    current_question,  \* st.session_state.current_question: index into its questions
    current_question_override,  \* st.session_state.current_question_override
    editable_files,    \* user_banks/editable/{user_id}/..._chapters.json: user id -> sessions
    total_words,       \* user id -> stats.total_words of the user's account
    responses_str,     \* the entries of st.session_state.responses under str keys
    backup,            \* the backup_json that create_backup returned, or NoBackup
    at_backup,         \* history: the session state when create_backup ran
    user_file_fields,  \* user id -> the vignettes and beta_feedback of the data file
    last_writer,       \* history: the function that wrote a data file last
    admin_secrets,     \* st.secrets: ADMIN_USERNAME and ADMIN_PASSWORD, None when missing
    admin_authenticated,  \* st.session_state.admin_authenticated of the admin dashboard
    admin_click        \* history: the button clicked last in the admin dashboard

\* the publisher page and the result shown on it
page == <<stories, data_loaded, book_title, author_name, format_style,
          include_toc, include_images, cover_choice, uploaded_cover, out, earlier>>

\* the markup stripping of one answer
strip == <<markup, stripped, restripped>>

\* the main application and the admin dashboard: the files and one browser
\* session
files == <<account_files, accounts_index, user_files, bank_files>>
session == <<logged_in, user_id, responses, app_data_loaded,
             current_question_bank, current_bank_id>>
app == <<files, session, auth, durable>>

\* the vignettes
vign == <<vignette_files, vignette_manager>>

\* the position of the main page in the current bank, and the editable banks
nav == <<current_session_index, current_question, current_question_override,
         editable_files>>

\* the statistics kept in the accounts
stats == <<total_words>>

\* backup and restore. A JSON object has str keys: a dict read from JSON is
\* keyed by the decimal strings of the session ids, and is held here under
\* the numbers that these strings spell, apart from the int keys
bak == <<responses_str, backup, at_backup>>

\* the fields of the data files other than the responses
fb == <<user_file_fields, last_writer>>

\* the login of the admin dashboard
adm == <<admin_secrets, admin_authenticated, admin_click>>

vars == <<page, strip, app, vign, nav, stats, bak, fb, adm>>

\* all that is not part of the publisher page, of the markup stripping, of
\* the application
not_page == <<strip, app, vign, nav, stats, bak, fb, adm>>
not_strip == <<page, app, vign, nav, stats, bak, fb, adm>>
not_app == <<page, strip, vign, nav, stats, bak, fb, adm>>
not_vign == <<page, strip, app, nav, stats, bak, fb, adm>>
not_app_nav == <<page, strip, vign, stats, bak, fb, adm>>
not_app_stats == <<page, strip, vign, nav, bak, fb, adm>>
not_app_stats_bak == <<page, strip, vign, nav, fb, adm>>
not_app_fb == <<page, strip, vign, nav, stats, bak, adm>>
not_app_adm == <<page, strip, vign, nav, stats, bak, fb>>

inputs == <<stories, data_loaded, book_title, author_name, format_style,
            include_toc, include_images, cover_choice, uploaded_cover>>

----------------------------------------------------------------------------
(* Bounds of the model.                                                    *)

MaxStories == 3
MaxTextLen == 2
MaxImages == 2
MaxMarkupLen == 6
MaxAccounts == 2
MaxSessions == 2
MaxVignettes == 2
MaxTopics == 2
MaxWords == 4

----------------------------------------------------------------------------
(* Python built-ins on text.                                               *)

RECURSIVE Concat(_)
\* "".join(parts): the parts of a sequence of texts, one after another
Concat(parts) ==
    IF parts = <<>> THEN <<>> ELSE Head(parts) \o Concat(Tail(parts))

\* s.replace(old, new) for a one-character old
str_replace(s, old, new) ==
    Concat([i \in 1..Len(s) |-> IF s[i] = old THEN new ELSE <<s[i]>>])

Whitespace == {" ", "\n", "\t"}

RECURSIVE lstrip(_)
lstrip(s) ==
    IF s # <<>> /\ Head(s) \in Whitespace THEN lstrip(Tail(s)) ELSE s

RECURSIVE rstrip(_)
rstrip(s) ==
    IF s # <<>> /\ s[Len(s)] \in Whitespace
    THEN rstrip(SubSeq(s, 1, Len(s) - 1)) ELSE s

\* s.strip()
str_strip(s) == rstrip(lstrip(s))

RECURSIVE SplitFrom(_, _, _)
SplitFrom(s, sep, cur) ==
    IF s = <<>> THEN <<cur>>
    ELSE IF Head(s) = sep THEN <<cur>> \o SplitFrom(Tail(s), sep, <<>>)
    ELSE SplitFrom(Tail(s), sep, Append(cur, Head(s)))

\* s.split(sep) for a one-character sep: "" gives [""], "a\n" gives ["a", ""]
str_split(s, sep) == SplitFrom(s, sep, <<>>)

\* c.lower() on the letters the model uses
LowerChar(c) ==
    CASE c = "A" -> "a"
      [] c = "B" -> "b"
      [] c = "T" -> "t"
      [] c = "Q" -> "q"
      [] OTHER -> c

str_lower(s) == [i \in 1..Len(s) |-> LowerChar(s[i])]

\* str(n) for 0 <= n <= 99
Digit(d) == CASE d = 0 -> "0" [] d = 1 -> "1" [] d = 2 -> "2" [] d = 3 -> "3"
              [] d = 4 -> "4" [] d = 5 -> "5" [] d = 6 -> "6" [] d = 7 -> "7"
              [] d = 8 -> "8" [] d = 9 -> "9"

str_int(n) == IF n < 10 THEN <<Digit(n)>> ELSE <<Digit(n \div 10), Digit(n % 10)>>

\* d.get(key, default)
Get(d, key, default) == IF key \in DOMAIN d THEN d[key] ELSE default

----------------------------------------------------------------------------
(* base64 and image recognition.                                           *)

\* base64.b64encode(data).decode()
b64encode(data) ==
    CASE data = "jpgA" -> "anBnQQ=="
      [] data = "jpgB" -> "anBnQg=="
      [] data = "text" -> "dGV4dA=="
      [] OTHER -> ""

\* base64.b64decode(text): the decoded bytes, or raised (binascii.Error:
\* a number of data characters that is not a multiple of four)
b64decode(text) ==
    CASE text = "anBnQQ==" -> [raised |-> FALSE, data |-> "jpgA"]
      [] text = "anBnQg==" -> [raised |-> FALSE, data |-> "jpgB"]
      [] text = "dGV4dA==" -> [raised |-> FALSE, data |-> "text"]
      [] OTHER -> [raised |-> TRUE, data |-> ""]

\* doc.add_picture(stream) accepts the stream (python-docx raises
\* UnrecognizedImageError on bytes that are no image)
IsImage(data) == data \in {"jpgA", "jpgB"}

----------------------------------------------------------------------------
(* Elements of a generated document.                                       *)

\* kind: the statement's role; text: the text it interpolates; id: an anchor;
\* data: a byte string or a base64 text; style: the paragraph style and run
\* format; year: the clock value it prints
El(kind, text) ==
    [kind |-> kind, text |-> text, id |-> <<>>, data |-> "", style |-> "", year |-> 0]

ElId(kind, text, id) == [El(kind, text) EXCEPT !.id = id]
ElData(kind, data, style) == [El(kind, <<>>) EXCEPT !.data = data, !.style = style]
ElStyle(kind, text, style) == [El(kind, text) EXCEPT !.style = style]
ElYear(kind, text, year) == [El(kind, text) EXCEPT !.year = year]

\* Python's None where a text is expected: a value that equals no text
None == <<"None">>

\* no answer is being exported
NoStripping == markup = <<>> /\ stripped = None /\ restripped = None

\* the default of story.get('session_title', 'Untitled Session')
UntitledSession ==
    <<"U", "n", "t", "i", "t", "l", "e", "d", " ", "S", "e", "s", "s", "i", "o", "n">>

\* status: what the caller received ("ok": the value, "none": None,
\* "raised": an exception); error: the message shown by st.error
NoResult ==
    [gen |-> "none", status |-> "none", error |-> "", year |-> 0, doc |-> <<>>,
     entries |-> <<>>]

\* a zip entry written by zip_file.writestr(name, content): html holds a text
\* content (the document's elements), data a bytes content
Entry(name, html, data) == [name |-> name, html |-> html, data |-> data]

----------------------------------------------------------------------------
(* Parts shared by the generators of biography_publisher.py.              *)

SessionTitle(story) == Get(story, "session_title", UntitledSession)

NewSessionOnlyFirst(session_title, current_session) == current_session = None

\* if session_title != current_session: a heading is due
NewSession(session_title, current_session) == session_title # current_session

ShowsQuestionUnlessBiography(style) == style # "biography"

\* if format_style == "interview": the question is shown
ShowsQuestion(style) == style = "interview"

RECURSIVE DictKeysPerRun(_, _)
\* one key per run of equal titles
DictKeysPerRun(titles, seen) ==
    IF titles = <<>> THEN seen
    ELSE DictKeysPerRun(Tail(titles),
                        IF seen # <<>> /\ seen[Len(seen)] = Head(titles)
                        THEN seen ELSE Append(seen, Head(titles)))

RECURSIVE DictKeys(_, _)
\* the keys of the dict `sessions`, in insertion (first-seen) order
DictKeys(titles, seen) ==
    IF titles = <<>> THEN seen
    ELSE DictKeys(Tail(titles),
                  IF \E i \in 1..Len(seen) : seen[i] = Head(titles)
                  THEN seen ELSE Append(seen, Head(titles)))

TocSessions(ss) == DictKeys([i \in 1..Len(ss) |-> SessionTitle(ss[i])], <<>>)

\* session_title.lower().replace(' ', '-').replace('?', '').replace('!', '').replace(',', '')
Anchor(session_title) ==
    str_replace(str_replace(str_replace(str_replace(
        str_lower(session_title), " ", <<"-">>), "?", <<>>), "!", <<>>), ",", <<>>)

EscapeMarkupAmpersandLast(s) ==
    str_replace(str_replace(str_replace(
        s, "<", <<"&", "l", "t", ";">>), ">", <<"&", "g", "t", ";">>),
        "&", <<"&", "a", "m", "p", ";">>)

\* .replace('&', '&amp;').replace('<', '&lt;').replace('>', '&gt;')
EscapeMarkup(s) ==
    str_replace(str_replace(str_replace(
        s, "&", <<"&", "a", "m", "p", ";">>), "<", <<"&", "l", "t", ";">>),
        ">", <<"&", "g", "t", ";">>)

\* the stripped, non-empty lines of answer_text
AnswerParagraphs(answer_text) ==
    IF answer_text = <<>> THEN <<>>
    ELSE LET paragraphs == str_split(answer_text, "\n")
         IN  SelectSeq([i \in 1..Len(paragraphs) |-> str_strip(paragraphs[i])],
                       LAMBDA para : para # <<>>)

PassedCoverWhateverChoice(choice, upload) ==
    IF upload # "NoFile" THEN upload ELSE ""

\* main(): cover_image is None unless "uploaded" is selected and a file is there
PassedCover(choice, upload) ==
    IF choice = "uploaded" /\ upload # "NoFile" THEN upload ELSE ""

----------------------------------------------------------------------------
(* biography_publisher.generate_html                                       *)

publisher_html_image(img) ==
    IF Get(img, "base64", "") # ""
    THEN <<ElData("img", img.base64, "story-image")>>
         \o (IF Get(img, "caption", <<>>) # <<>>
             THEN <<ElStyle("p", EscapeMarkup(img.caption), "image-caption")>>
             ELSE <<>>)
    ELSE <<>>

publisher_html_story(story, current_session, style, with_images) ==
    LET session_title == SessionTitle(story)
        anchor == Anchor(session_title)
        paras == AnswerParagraphs(Get(story, "answer_text", <<>>))
        images == Get(story, "images", <<>>)
    IN  (IF NewSession(session_title, current_session)
         THEN <<ElId("h2", session_title, anchor)>> ELSE <<>>)
        \o (IF ShowsQuestion(style)
            THEN <<ElStyle("div", Get(story, "question", <<>>), "question")>>
            ELSE <<>>)
        \o [i \in 1..Len(paras) |-> El("p", EscapeMarkup(paras[i]))]
        \o (IF with_images /\ images # <<>>
            THEN Concat([j \in 1..Len(images) |-> publisher_html_image(images[j])])
            ELSE <<>>)
        \o <<El("hr", <<>>)>>

RECURSIVE publisher_html_stories(_, _, _, _)
publisher_html_stories(ss, current_session, style, with_images) ==
    IF ss = <<>> THEN <<>>
    ELSE publisher_html_story(Head(ss), current_session, style, with_images)
         \o publisher_html_stories(Tail(ss), SessionTitle(Head(ss)), style, with_images)

publisher_html_toc(ss) ==
    LET sessions == TocSessions(ss)
    IN  <<El("toc", <<>>)>>
        \o [i \in 1..Len(sessions) |->
              ElId("li", sessions[i], Anchor(sessions[i]))]

publisher_generate_html(title, author, ss, style, toc, with_images, cover_image, year) ==
    <<El("title", title)>>
    \o (IF cover_image # ""
        THEN <<ElData("img", b64encode(cover_image), "cover")>> ELSE <<>>)
    \o <<El("h1", title), ElStyle("p", author, "author"),
         ElYear("copyright", author, year)>>
    \o (IF toc THEN publisher_html_toc(ss) ELSE <<>>)
    \o publisher_html_stories(ss, None, style, with_images)

----------------------------------------------------------------------------
(* biography_publisher.generate_zip                                        *)

ImageFilenameStoryOnly(i, j) ==
    <<"i", "m", "a", "g", "e", "s", "/", "i", "m", "a", "g", "e", "_">>
    \o str_int(i) \o <<".", "j", "p", "g">>

\* f"images/image_{i}_{j}.jpg"
ImageFilename(i, j) ==
    <<"i", "m", "a", "g", "e", "s", "/", "i", "m", "a", "g", "e", "_">>
    \o str_int(i) \o <<"_">> \o str_int(j) \o <<".", "j", "p", "g">>

\* f"{title.replace(' ', '_')}.html"
HtmlFilename(title) ==
    str_replace(title, " ", <<"_">>) \o <<".", "h", "t", "m", "l">>

publisher_zip_image(i, j, img) ==
    IF Get(img, "base64", "") # "" /\ ~b64decode(img.base64).raised
    THEN <<Entry(ImageFilename(i, j), <<>>, b64decode(img.base64).data)>>
    ELSE <<>>

publisher_zip_story(i, story) ==
    LET images == Get(story, "images", <<>>)
    IN  Concat([j \in 1..Len(images) |-> publisher_zip_image(i, j - 1, images[j])])

publisher_generate_zip(title, author, ss, style, toc, with_images, cover_image, year) ==
    <<Entry(HtmlFilename(title),
            publisher_generate_html(title, author, ss, style, toc, with_images,
                                    cover_image, year),
            "")>>
    \o (IF with_images
        THEN Concat([i \in 1..Len(ss) |-> publisher_zip_story(i - 1, ss[i])])
        ELSE <<>>)

----------------------------------------------------------------------------
(* biography_publisher.generate_docx                                       *)

\* doc.add_picture(io.BytesIO(data), ...) inside try/except: python-docx
\* appends the picture's paragraph first and raises on bytes that are no
\* image, which leaves that paragraph empty behind
docx_add_picture(data, style) ==
    IF IsImage(data) THEN <<ElData("picture", data, style)>>
    ELSE <<El("paragraph", <<>>)>>

publisher_docx_image(img) ==
    IF Get(img, "base64", "") # ""
    THEN LET decoded == b64decode(img.base64)
         IN  IF decoded.raised THEN <<>>
             ELSE IF ~IsImage(decoded.data) THEN docx_add_picture(decoded.data, "")
             ELSE docx_add_picture(decoded.data, "center")
                  \o (IF Get(img, "caption", <<>>) # <<>>
                      THEN <<ElStyle("paragraph", img.caption, "center")>>
                      ELSE <<>>)
    ELSE <<>>

RECURSIVE publisher_docx_images_one_try(_)
publisher_docx_images_one_try(images) ==
    IF images = <<>> THEN <<>>
    ELSE LET img == Head(images)
             decoded == b64decode(Get(img, "base64", ""))
         IN  IF Get(img, "base64", "") = ""
             THEN publisher_docx_images_one_try(Tail(images))
             ELSE IF decoded.raised \/ ~IsImage(decoded.data)
             THEN publisher_docx_image(img)
             ELSE publisher_docx_image(img) \o publisher_docx_images_one_try(Tail(images))

\* for img in story.get('images', []): each image in its own try/except
publisher_docx_images(images) ==
    Concat([j \in 1..Len(images) |-> publisher_docx_image(images[j])])

publisher_docx_story(story, current_session, style, with_images) ==
    LET session_title == SessionTitle(story)
        paras == AnswerParagraphs(Get(story, "answer_text", <<>>))
        images == Get(story, "images", <<>>)
    IN  (IF NewSession(session_title, current_session)
         THEN <<ElStyle("paragraph", session_title, "Heading 1")>> ELSE <<>>)
        \o (IF ShowsQuestion(style)
            THEN <<ElStyle("paragraph", Get(story, "question", <<>>), "bold italic")>>
            ELSE <<>>)
        \o [i \in 1..Len(paras) |-> ElStyle("paragraph", paras[i], "Normal")]
        \o (IF with_images /\ images # <<>> THEN publisher_docx_images(images) ELSE <<>>)
        \o <<El("paragraph", <<>>)>>

RECURSIVE publisher_docx_stories(_, _, _, _)
publisher_docx_stories(ss, current_session, style, with_images) ==
    IF ss = <<>> THEN <<>>
    ELSE publisher_docx_story(Head(ss), current_session, style, with_images)
         \o publisher_docx_stories(Tail(ss), SessionTitle(Head(ss)), style, with_images)

publisher_docx_toc(ss) ==
    LET sessions == TocSessions(ss)
    IN  <<ElStyle("paragraph", <<>>, "toc title")>>
        \o [i \in 1..Len(sessions) |-> ElStyle("paragraph", sessions[i], "List Bullet")]
        \o <<El("page_break", <<>>)>>

publisher_docx_cover(cover_image) ==
    IF cover_image # ""
    THEN IF IsImage(cover_image)
         THEN docx_add_picture(cover_image, "center") \o <<El("paragraph", <<>>)>>
         ELSE docx_add_picture(cover_image, "")
    ELSE <<>>

\* the document python-docx saves; the caller gets None instead when the
\* import of docx fails (see ClickGenerateDocx)
publisher_generate_docx(title, author, ss, style, toc, with_images, cover_image, year) ==
    publisher_docx_cover(cover_image)
    \o <<ElStyle("paragraph", title, "title"), ElStyle("paragraph", author, "author"),
         El("page_break", <<>>),
         ElYear("paragraph", author, year),
         El("page_break", <<>>)>>
    \o (IF toc THEN publisher_docx_toc(ss) ELSE <<>>)
    \o publisher_docx_stories(ss, None, style, with_images)

----------------------------------------------------------------------------
(* biographer.py: generate_pdf, generate_docx, generate_html, generate_zip *)

\* characters with ord(c) >= 128 that the model's texts use
NonAscii == {"U+00E9", "U+20AC"}

\* ''.join(c for c in s if ord(c) < 128)
AsciiOnly(s) == SelectSeq(s, LAMBDA c : c \notin NonAscii)

biographer_pdf_story(story) ==
    LET safe_q == AsciiOnly(Get(story, "question", <<>>))
        safe_a == AsciiOnly(Get(story, "answer_text", <<>>))
    IN  <<ElStyle("multi_cell", safe_q, "B12"), ElStyle("multi_cell", safe_a, "11")>>

\* format_style, include_toc and include_dates are parameters the body never reads
biographer_generate_pdf(title, author, ss, style, toc, dates) ==
    LET safe_title == AsciiOnly(title)
        safe_author == AsciiOnly(author)
    IN  <<ElStyle("cell", IF safe_title # <<>> THEN safe_title
                          ELSE <<"M", "y", " ", "S", "t", "o", "r", "y">>, "B30"),
          ElStyle("cell", IF safe_author # <<>> THEN safe_author
                          ELSE <<"A", "u", "t", "h", "o", "r">>, "16"),
          El("add_page", <<>>)>>
        \o Concat([i \in 1..Len(ss) |-> biographer_pdf_story(ss[i])])

biographer_docx_image(img_data) ==
    IF Get(img_data, "base64", "") # ""
    THEN LET decoded == b64decode(img_data.base64)
         IN  IF decoded.raised THEN <<>>
             ELSE docx_add_picture(decoded.data, "")
                  \o (IF IsImage(decoded.data) /\ Get(img_data, "caption", <<>>) # <<>>
                      THEN <<ElStyle("paragraph", img_data.caption, "Caption")>>
                      ELSE <<>>)
    ELSE <<>>

biographer_docx_story(story) ==
    LET images == Get(story, "images", <<>>)
    IN  <<ElStyle("paragraph", Get(story, "question", <<>>), "Heading 2"),
          ElStyle("paragraph", Get(story, "answer_text", <<>>), "Normal")>>
        \o Concat([j \in 1..Len(images) |-> biographer_docx_image(images[j])])
        \o <<El("paragraph", <<>>)>>

\* format_style and include_dates are parameters the body never reads
biographer_generate_docx(title, author, ss, style, toc, dates) ==
    <<ElStyle("paragraph", title, "Title"), ElStyle("paragraph", author, "author"),
      El("page_break", <<>>)>>
    \o (IF toc THEN <<ElStyle("paragraph", <<>>, "toc title")>> ELSE <<>>)
    \o Concat([i \in 1..Len(ss) |-> biographer_docx_story(ss[i])])

biographer_html_image(img) ==
    IF Get(img, "base64", "") # ""
    THEN <<[ElData("img", img.base64, "") EXCEPT !.text = Get(img, "caption", <<>>)]>>
         \o (IF Get(img, "caption", <<>>) # <<>>
             THEN <<ElStyle("div", img.caption, "caption")>> ELSE <<>>)
    ELSE <<>>

biographer_html_story(story) ==
    LET images == Get(story, "images", <<>>)
    IN  <<ElStyle("div", story.question, "question"), El("div", story.answer_text)>>
        \o Concat([j \in 1..Len(images) |-> biographer_html_image(images[j])])
        \o <<El("hr", <<>>)>>

biographer_generate_html(title, author, ss, year) ==
    <<El("title", title), El("h1", title), ElStyle("div", author, "author")>>
    \o Concat([i \in 1..Len(ss) |-> biographer_html_story(ss[i])])
    \o <<ElYear("footer", <<>>, year)>>

\* the images of the stories from position i (0-based) on, in writing order:
\* b64decode is not guarded, so the first undecodable one raises
RECURSIVE biographer_zip_images(_, _)
biographer_zip_images(ss, i) ==
    IF i >= Len(ss) THEN <<>>
    ELSE LET images == Get(ss[i + 1], "images", <<>>)
         IN  [j \in 1..Len(images) |-> [i |-> i, j |-> j - 1, img |-> images[j]]]
             \o biographer_zip_images(ss, i + 1)

biographer_zip_present(ss) ==
    SelectSeq(biographer_zip_images(ss, 0), LAMBDA e : Get(e.img, "base64", "") # "")

\* the result of generate_zip: the archive's entries, or the exception raised
biographer_generate_zip(title, author, ss, year) ==
    LET present == biographer_zip_present(ss)
    IN  IF \E k \in 1..Len(present) : b64decode(present[k].img.base64).raised
        THEN [raised |-> TRUE, entries |-> <<>>]
        ELSE [raised |-> FALSE,
              entries |->
                <<Entry(HtmlFilename(title),
                        biographer_generate_html(title, author, ss, year), "")>>
                \o [k \in 1..Len(present) |->
                      Entry(ImageFilename(present[k].i, present[k].j), <<>>,
                            b64decode(present[k].img.base64).data)]]

----------------------------------------------------------------------------
(* The inputs the model draws.                                             *)

\* every text over `alphabet` of at most n characters
Texts(alphabet, n) == UNION {[1..k -> alphabet] : k \in 0..n}

\* every non-empty list over `items` of at most n elements
Lists(items, n) == UNION {[1..k -> items] : k \in 1..n}

\* datetime.now().year, read once by each call that prints it
Years == {2025, 2026}

FormatStyles == {"interview", "biography", "memoir"}

Story(title, question, answer) ==
    [session_title |-> title, question |-> question, answer_text |-> answer]

StoryWithImages(title, question, answer, images) ==
    [session_title |-> title, question |-> question, answer_text |-> answer,
     images |-> images]

Image(base64, caption) == [base64 |-> base64, caption |-> caption]

\* no data; two images; bytes that are no image; a base64 text that does not decode
Images ==
    {Image("", <<"c">>), Image("anBnQQ==", <<>>), Image("anBnQQ==", <<"c">>),
     Image("anBnQg==", <<"<", "&">>), Image("dGV4dA==", <<"c">>),
     Image("anBnQ", <<"c">>)}

DefaultInput ==
    [stories |-> <<Story(<<"A">>, <<"Q">>, <<"a">>)>>,
     title |-> <<"T">>, author |-> <<"J">>, style |-> "interview",
     toc |-> TRUE, images |-> TRUE, choice |-> "simple", upload |-> "NoFile"]

\* story lists that differ in their sequence of session titles
GroupingInputs ==
    {[DefaultInput EXCEPT !.stories = ss, !.style = s, !.toc = t] :
        ss \in Lists({Story(<<"A">>, <<"Q">>, <<"a">>), Story(<<"B">>, <<"Q">>, <<"b">>)},
                     MaxStories),
        s \in FormatStyles, t \in BOOLEAN}

\* one story, every short answer text with markup, blanks and line breaks
AnswerInputs ==
    {[DefaultInput EXCEPT !.stories = <<Story(<<"A">>, <<"Q">>, a)>>, !.style = s] :
        a \in Texts({"a", "&", "<", ">", " ", "\n"}, MaxTextLen),
        s \in {"interview", "biography"}}

QuestionInputs ==
    {[DefaultInput EXCEPT !.stories = <<Story(<<"A">>, q, <<"a">>)>>, !.style = s] :
        q \in Texts({"Q", "<", "&"}, MaxTextLen), s \in FormatStyles}

SessionTitleInputs ==
    {[DefaultInput EXCEPT !.stories = <<Story(t, <<"Q">>, <<"a">>)>>] :
        t \in Texts({"A", " ", "?", "<"}, MaxTextLen) \ {<<>>}}

BookInputs ==
    {[DefaultInput EXCEPT !.title = t, !.author = a] :
        t \in {<<"T">>, <<"a", " ", "b">>, <<"<", "b", ">">>},
        a \in {<<"J">>, <<"&">>, <<"U+00E9">>}}

\* a story with up to MaxImages images, then a story with one good image
ImageInputs ==
    {[DefaultInput EXCEPT
        !.stories = <<StoryWithImages(<<"A">>, <<"Q">>, <<"a">>, imgs),
                      StoryWithImages(<<"B">>, <<"Q">>, <<"b">>,
                                      <<Image("anBnQg==", <<"d">>)>>)>>,
        !.images = i, !.style = s] :
        imgs \in Lists(Images, MaxImages), i \in BOOLEAN,
        s \in {"interview", "memoir"}}

Uploads == {"NoFile", "", "jpgA", "text"}

CoverInputs ==
    {[DefaultInput EXCEPT !.choice = c, !.upload = u] :
        c \in {"simple", "uploaded"}, u \in Uploads}

\* two stories whose session titles differ by case or punctuation
AnchorInputs ==
    {[DefaultInput EXCEPT
        !.stories = <<Story(t1, <<"Q">>, <<"a">>), Story(t2, <<"Q">>, <<"b">>)>>] :
        t1, t2 \in {<<"A">>, <<"a">>, <<"A", "?">>, <<"A", " ", "B">>, <<"a", "-", "b">>}}

Inputs ==
    GroupingInputs \cup AnswerInputs \cup QuestionInputs \cup SessionTitleInputs
    \cup BookInputs \cup ImageInputs \cup CoverInputs \cup AnchorInputs

----------------------------------------------------------------------------
(* The generate buttons: each click runs its generator on the page's       *)
(* current inputs and shows the result.                                    *)

Result(gen, status, year, doc, entries) ==
    [gen |-> gen, status |-> status, error |-> "", year |-> year, doc |-> doc,
     entries |-> entries]

\* generate_docx after an exception: st.error(message), return None
DocxFailure(message) ==
    [Result("publisher_docx", "none", 0, <<>>, <<>>) EXCEPT !.error = message]

\* what can go wrong under generate_docx: the import of docx fails, or a
\* call into the library raises (Document(), add_*, doc.save)
DocxEnvironments == {"ok", "no_docx", "library_error"}

\* main(): cover_image as the script run computes it before the buttons
cover_image == PassedCover(cover_choice, uploaded_cover)

\* the publishing section is rendered only with data loaded and stories present
CanPublish == data_loaded /\ stories # <<>>

\* the DOCX click taking the images out of the records it has embedded
ClickGenerateDocxTakesImages ==
    /\ CanPublish
    /\ \E year \in Years :
          out' = Result("publisher_docx", "ok", year,
                        publisher_generate_docx(book_title, author_name, stories,
                            format_style, include_toc, include_images,
                            cover_image, year), <<>>)
    /\ stories' = [k \in 1..Len(stories) |->
                      IF "images" \in DOMAIN stories[k]
                      THEN [stories[k] EXCEPT !.images = <<>>] ELSE stories[k]]
    /\ UNCHANGED <<data_loaded, book_title, author_name, format_style, include_toc,
                   include_images, cover_choice, uploaded_cover>>

\* "Generate DOCX": generate_docx catches every exception, shows a message
\* with st.error and returns None; the download button is then not shown
ClickGenerateDocx ==
    /\ CanPublish
    /\ \E year \in Years, env \in DocxEnvironments :
          out' = CASE env = "ok" ->
                        Result("publisher_docx", "ok", year,
                               publisher_generate_docx(book_title, author_name, stories,
                                   format_style, include_toc, include_images,
                                   cover_image, year), <<>>)
                   [] env = "no_docx" -> DocxFailure("Please install python-docx")
                   [] env = "library_error" -> DocxFailure("Error generating DOCX")
    /\ UNCHANGED inputs

ClickGenerateHtml ==
    /\ CanPublish
    /\ \E year \in Years :
          out' = Result("publisher_html", "ok", year,
                        publisher_generate_html(book_title, author_name, stories,
                            format_style, include_toc, include_images,
                            cover_image, year), <<>>)
    /\ UNCHANGED inputs

ClickGenerateZip ==
    /\ CanPublish
    /\ \E year \in Years :
          out' = Result("publisher_zip", "ok", year, <<>>,
                        publisher_generate_zip(book_title, author_name, stories,
                            format_style, include_toc, include_images,
                            cover_image, year))
    /\ UNCHANGED inputs

\* r'<[^<>]+>': a "<" inside a tag is not taken as part of it
RECURSIVE StripTagsInnermost(_)
StripTagsInnermost(s) ==
    IF s = <<>> THEN <<>>
    ELSE LET marks == {j \in 2..Len(s) : s[j] \in {"<", ">"}}
             first == CHOOSE j \in marks : \A q \in marks : j <= q
         IN  IF s[1] = "<" /\ marks # {} /\ s[first] = ">" /\ first >= 3
             THEN StripTagsInnermost(SubSeq(s, first + 1, Len(s)))
             ELSE <<s[1]>> \o StripTagsInnermost(Tail(s))

\* r'<[^>]*>': "<>" is taken as a tag too
RECURSIVE StripTagsAllowEmpty(_)
StripTagsAllowEmpty(s) ==
    IF s = <<>> THEN <<>>
    ELSE LET closes == {j \in 2..Len(s) : s[j] = ">"}
         IN  IF s[1] = "<" /\ closes # {}
             THEN StripTagsAllowEmpty(
                      SubSeq(s, (CHOOSE j \in closes : \A q \in closes : j <= q) + 1,
                             Len(s)))
             ELSE <<s[1]>> \o StripTagsAllowEmpty(Tail(s))

\* re.sub(r'<[^>]+>', '', s): every "<", one or more characters other than
\* ">", ">" is removed, scanning from the left
RECURSIVE StripTags(_)
StripTags(s) ==
    IF s = <<>> THEN <<>>
    ELSE LET closes == {j \in 2..Len(s) : s[j] = ">"}
         IN  IF s[1] = "<" /\ closes # {} /\ (\A j \in closes : j >= 3)
             THEN StripTags(SubSeq(s, (CHOOSE j \in closes : \A q \in closes : j <= q) + 1,
                                   Len(s)))
             ELSE <<s[1]>> \o StripTags(Tail(s))

\* export_data as the sidebar assembles it: answers with the tags removed,
\* images carrying the b64encode of a file's bytes
ExportData ==
    \A k \in 1..Len(stories) :
        /\ stories[k].answer_text = StripTags(stories[k].answer_text)
        /\ LET images == Get(stories[k], "images", <<>>)
           IN  \A j \in 1..Len(images) :
                   \E data \in {"jpgA", "jpgB", "text"} : images[j].base64 = b64encode(data)

\* biographer.py sidebar, "DOCX": generate_docx(book_title, author, export_data,
\* "memoir", True, False)
SidebarDocx ==
    /\ stories # <<>> /\ ExportData
    /\ out' = Result("biographer_docx", "ok", 0,
                     biographer_generate_docx(book_title, author_name, stories,
                                              "memoir", TRUE, FALSE), <<>>)
    /\ UNCHANGED inputs

SidebarHtml ==
    /\ stories # <<>> /\ ExportData
    /\ \E year \in Years :
          out' = Result("biographer_html", "ok", year,
                        biographer_generate_html(book_title, author_name, stories, year),
                        <<>>)
    /\ UNCHANGED inputs

SidebarZip ==
    /\ stories # <<>> /\ ExportData
    /\ \E year \in Years :
          LET zip == biographer_generate_zip(book_title, author_name, stories, year)
          IN  out' = Result("biographer_zip", IF zip.raised THEN "raised" ELSE "ok",
                            year, <<>>, zip.entries)
    /\ UNCHANGED inputs

\* generate_docx, generate_pdf and generate_zip of biographer.py applied to
\* any story list, with the page's format_style and include_toc (the sidebar
\* passes constants and export_data; generate_pdf has no caller)
ApplyBiographerDocx ==
    /\ stories # <<>>
    /\ out' = Result("biographer_docx_fn", "ok", 0,
                     biographer_generate_docx(book_title, author_name, stories,
                                              format_style, include_toc, FALSE), <<>>)
    /\ UNCHANGED inputs

ApplyBiographerPdf ==
    /\ stories # <<>>
    /\ out' = Result("biographer_pdf", "ok", 0,
                     biographer_generate_pdf(book_title, author_name, stories,
                                             format_style, include_toc, FALSE), <<>>)
    /\ UNCHANGED inputs

ApplyBiographerZip ==
    /\ stories # <<>>
    /\ \E year \in Years :
          LET zip == biographer_generate_zip(book_title, author_name, stories, year)
          IN  out' = Result("biographer_zip_fn", IF zip.raised THEN "raised" ELSE "ok",
                            year, <<>>, zip.entries)
    /\ UNCHANGED inputs

----------------------------------------------------------------------------
(* The main application (biographer.py) and the admin dashboard            *)
(* (admin_dashboard.py): accounts, the stored answers of a user, the       *)
(* question banks, and one browser session of the application.  A Python   *)
(* dict is a function on its keys; a JSON file is the value it holds.      *)

EmptyDict == [k \in {} |-> k]

\* d[key] = value
Put(d, key, value) ==
    [k \in DOMAIN d \cup {key} |-> IF k = key THEN value ELSE d[k]]

\* del d[key]
Del(d, key) == [k \in DOMAIN d \ {key} |-> d[k]]

\* what the forms are filled with
Emails == {<<"a">>, <<"A">>, <<"b", " ">>}
Passwords == {<<"p">>, <<"q">>}

\* the user ids the model has: sha256(email + now)[:12] is a new one each time
UserIds == 1..MaxAccounts

\* hashlib.sha256(password.encode()).hexdigest(): one digest per password
hash_password(password) == <<"sha256", password>>

verify_password(stored_hash, password) == stored_hash = hash_password(password)

\* an id no account has had
UnusedUserIds ==
    {u \in UserIds :
        /\ u \notin DOMAIN account_files
        /\ \A i \in 1..Len(accounts_index) : accounts_index[i].user_id # u}

NewUserId == CHOOSE u \in UnusedUserIds : \A v \in UnusedUserIds : u <= v

\* the user_record of create_user_account: no "subscription" key
SignUpRecord(uid, email, password) ==
    [user_id |-> uid,
     email |-> str_strip(str_lower(email)),
     password_hash |-> hash_password(password),
     last_login |-> "now",
     subscription |-> "none"]

\* the account of the admin's "Add User" form
AdminRecord(uid, email, password, status) ==
    [user_id |-> uid,
     email |-> str_strip(str_lower(email)),
     password_hash |-> hash_password(password),
     last_login |-> "None",
     subscription |-> status]

\* Python's None where an account is expected: a record no account equals
NoAccount ==
    [user_id |-> 0, email |-> <<>>, password_hash |-> <<>>,
     last_login |-> "None", subscription |-> "none"]

\* update_accounts_index: index[user_id] = {...}; a key keeps its place
update_accounts_index(index, user_record) ==
    LET entry == [user_id |-> user_record.user_id, email |-> user_record.email]
        at == {i \in 1..Len(index) : index[i].user_id = user_record.user_id}
    IN  IF at = {} THEN Append(index, entry)
        ELSE [i \in 1..Len(index) |-> IF i \in at THEN entry ELSE index[i]]

\* get_account_data(email=email): the account file of the first index entry
\* with this email; a missing file raises inside the try, which gives None
get_account_data(email) ==
    LET wanted == str_strip(str_lower(email))
        found == {i \in 1..Len(accounts_index) :
                     str_lower(accounts_index[i].email) = wanted}
        first == CHOOSE i \in found : \A j \in found : i <= j
    IN  IF found = {} THEN NoAccount
        ELSE IF accounts_index[first].user_id \in DOMAIN account_files
             THEN account_files[accounts_index[first].user_id]
             ELSE NoAccount

\* authenticate_user: the account, or no account for "Invalid email or password"
authenticate_user(email, password) ==
    LET account == get_account_data(email)
    IN  IF account # NoAccount /\ verify_password(account.password_hash, password)
        THEN [account EXCEPT !.last_login = "now"]
        ELSE NoAccount

\* question bank sessions: the id, the title and the list of questions
SessionOf(id, title, questions) == [id |-> id, title |-> title, questions |-> questions]

\* a session that has no question yet
Session(id, title) == SessionOf(id, title, <<>>)

\* question_banks/default/life_story_comprehensive.csv, sorted by session id
DefaultBankId == "life_story_comprehensive"
DefaultBank ==
    <<SessionOf(1, "Early Memories", <<"q1">>), SessionOf(2, "School Years", <<"q1">>)>>

\* the entry made for a session that has none
NewResponse(title) == [title |-> title, questions |-> <<>>]

RECURSIVE AddSessions(_, _)
\* for session in sessions: if session["id"] not in responses: responses[...] = {...}
AddSessions(resp, sessions) ==
    IF sessions = <<>> THEN resp
    ELSE AddSessions(IF Head(sessions).id \in DOMAIN resp THEN resp
                     ELSE Put(resp, Head(sessions).id, NewResponse(Head(sessions).title)),
                     Tail(sessions))

\* load_user_data(user_id)["responses"]: no file gives {}
load_user_data(uid) == Get(user_files, uid, EmptyDict)

\* the "Load user data" block of a script run: the stored questions of a
\* session replace those in memory when the session is in memory already
\* and the stored questions are not empty
LoadUserDataFrom(stored, resp) ==
    [sid \in DOMAIN resp |->
        IF sid \in DOMAIN stored /\ stored[sid].questions # <<>>
        THEN [resp[sid] EXCEPT !.questions = stored[sid].questions]
        ELSE resp[sid]]

LoadUserData(uid, resp) == LoadUserDataFrom(load_user_data(uid), resp)

NoAuth == [form |-> "none", email |-> <<>>, password |-> <<>>,
           success |-> FALSE, user_id |-> 0]

AuthResult(form, email, password, success, uid) ==
    [form |-> form, email |-> email, password |-> password,
     success |-> success, user_id |-> uid]

\* default_state: the first topic of the first session, no custom topic, and
\* no editable bank made yet
NavAtStart ==
    /\ current_session_index = 0
    /\ current_question = 0
    /\ current_question_override = None
    /\ editable_files = EmptyDict

\* "stats": {"total_words": 0, ...} of a new account
StatsAtStart == total_words = [u \in UserIds |-> 0]

\* no backup made
NoBackup == [user_id |-> 0, user_account |-> NoAccount, total_words |-> 0,
             responses |-> EmptyDict]

NoSnapshot == [user_account |-> NoAccount, total_words |-> 0,
               responses |-> EmptyDict, responses_str |-> EmptyDict]

\* the session's responses have int keys only, and no backup was made
NoBackupYet ==
    /\ responses_str = EmptyDict
    /\ backup = NoBackup
    /\ at_backup = NoSnapshot

\* json.dump of the session's responses, read again: the int keys are written
\* as str keys after the str keys the dict has, and of two equal keys
\* json.load keeps the last one
JsonResponses(resp) ==
    [k \in DOMAIN responses_str \cup DOMAIN resp |->
        IF k \in DOMAIN resp THEN resp[k] ELSE responses_str[k]]

\* the fields of a data file that has none: existing.get("vignettes", []) and
\* existing.get("beta_feedback", {})
NoFields == [vignettes |-> <<>>, beta_feedback |-> EmptyDict]

FeedbackAtStart ==
    /\ user_file_fields = [u \in UserIds |-> NoFields]
    /\ last_writer = "none"

\* no click in the admin dashboard yet
NoClick == [button |-> "none", username |-> <<>>, password |-> <<>>]

\* the admin dashboard before its first script run: 'admin_authenticated' is
\* set to False by the first run; the secrets are configured here
AdminAtStart ==
    /\ admin_secrets = [ADMIN_USERNAME |-> <<"u">>, ADMIN_PASSWORD |-> <<"s">>]
    /\ admin_authenticated = FALSE
    /\ admin_click = NoClick

\* 'vignette_manager' not in st.session_state
NoManager == [user_id |-> 0, vignettes |-> <<>>]

\* a browser session after its first script run: default_state, then
\* initialize_question_bank with the default bank
SessionAtStart ==
    /\ vignette_manager = NoManager
    /\ logged_in = FALSE
    /\ user_id = 0
    /\ responses = AddSessions(EmptyDict, DefaultBank)
    /\ app_data_loaded = FALSE
    /\ current_question_bank = DefaultBank
    /\ current_bank_id = DefaultBankId

\* no account, no file, nobody at the login form yet
AppAtStart ==
    /\ account_files = EmptyDict
    /\ accounts_index = <<>>
    /\ user_files = EmptyDict
    /\ bank_files = EmptyDict
    /\ vignette_files = EmptyDict
    /\ NavAtStart
    /\ StatsAtStart
    /\ NoBackupYet
    /\ FeedbackAtStart
    /\ AdminAtStart
    /\ SessionAtStart
    /\ auth = NoAuth
    /\ durable = EmptyDict

\* the "Login" form: authenticate_user, and on success the rerun, whose
\* script run loads the user's data
Login ==
    \E email \in Emails, password \in Passwords :
        LET account == authenticate_user(email, password) IN
        /\ ~logged_in
        /\ IF account # NoAccount
           THEN /\ account_files' = Put(account_files, account.user_id, account)
                /\ accounts_index' = update_accounts_index(accounts_index, account)
                /\ user_id' = account.user_id
                /\ logged_in' = TRUE
                /\ responses' = LoadUserData(account.user_id, responses)
                /\ app_data_loaded' = TRUE
                /\ auth' = AuthResult("login", email, password, TRUE, account.user_id)
           ELSE /\ auth' = AuthResult("login", email, password, FALSE, 0)
                /\ UNCHANGED <<account_files, accounts_index, user_id, logged_in,
                               responses, app_data_loaded>>
        /\ UNCHANGED <<user_files, bank_files, current_question_bank,
                       current_bank_id, durable>>

\* the "Sign Up" form with every field filled, the passwords equal and the
\* terms accepted: "Email already exists", or create_user_account and the
\* rerun as the new user
SignUp ==
    \E email \in Emails, password \in Passwords :
        /\ ~logged_in
        /\ IF get_account_data(email) # NoAccount
           THEN /\ auth' = AuthResult("signup", email, password, FALSE, 0)
                /\ UNCHANGED <<account_files, accounts_index, user_id, logged_in,
                               responses, app_data_loaded>>
           ELSE /\ UnusedUserIds # {}
                /\ LET user_record == SignUpRecord(NewUserId, email, password) IN
                     /\ account_files' = Put(account_files, NewUserId, user_record)
                     /\ accounts_index' = update_accounts_index(accounts_index, user_record)
                     /\ user_id' = NewUserId
                     /\ logged_in' = TRUE
                     /\ responses' = LoadUserData(NewUserId, responses)
                     /\ app_data_loaded' = TRUE
                     /\ auth' = AuthResult("signup", email, password, TRUE, NewUserId)
        /\ UNCHANGED <<user_files, bank_files, current_question_bank,
                       current_bank_id, durable>>

\* the admin dashboard's "Add User" form with every field filled: the
\* account file and an empty data file
AdminAddUser ==
    \E email \in Emails, password \in Passwords, status \in {"active", "free"} :
        /\ UnusedUserIds # {}
        /\ account_files' =
               Put(account_files, NewUserId, AdminRecord(NewUserId, email, password, status))
        /\ user_files' = Put(user_files, NewUserId, EmptyDict)
        /\ UNCHANGED <<accounts_index, bank_files, session, auth, durable>>

\* the admin dashboard's "Delete" of a listed user and "Yes, Delete": the
\* account file and the data file are unlinked
AdminDeleteUser ==
    \E u \in DOMAIN account_files :
        /\ account_files' = Del(account_files, u)
        /\ user_files' = Del(user_files, u)
        /\ UNCHANGED <<accounts_index, bank_files, session, auth, durable>>

\* logout_user: the session's keys are deleted, and the rerun starts over
Logout ==
    /\ logged_in
    /\ logged_in' = FALSE
    /\ user_id' = 0
    /\ responses' = AddSessions(EmptyDict, DefaultBank)
    /\ app_data_loaded' = FALSE
    /\ current_question_bank' = DefaultBank
    /\ current_bank_id' = DefaultBankId
    /\ UNCHANGED <<files, auth, durable>>

\* the texts of the questions and of the answers the model saves
Questions == {"q1"}
Answers == {<<"x">>, <<"y">>}

\* the titles typed in the bank editor
EditedTitles == {"Early Memories", "School Years"}

\* the one custom bank of a user that the model follows
CustomBankId == "custom"

\* responses[sid]["questions"] is a dict in insertion order: the sequence of
\* its items
HasQuestion(questions, q) == \E i \in 1..Len(questions) : questions[i].question = q

\* questions[q] = {"answer": answer, "question": q, ...}: a key keeps its place
PutQuestion(questions, q, answer) ==
    LET item == [question |-> q, answer |-> answer]
    IN  IF HasQuestion(questions, q)
        THEN [i \in 1..Len(questions) |->
                 IF questions[i].question = q THEN item ELSE questions[i]]
        ELSE Append(questions, item)

\* del questions[q]
DelQuestion(questions, q) ==
    LET Others(item) == item.question # q IN SelectSeq(questions, Others)

\* the session of the current bank with this id, or the default of next(...)
BankSessionTitle(bank, sid) ==
    LET at == {i \in 1..Len(bank) : bank[i].id = sid}
    IN  IF at = {} THEN "Session"
        ELSE bank[CHOOSE i \in at : \A j \in at : i <= j].title

\* save_response up to its save_user_data call: the responses it writes
SavedResponses(sid, q, answer) ==
    LET resp == IF sid \in DOMAIN responses THEN responses
                ELSE Put(responses, sid,
                         NewResponse(BankSessionTitle(current_question_bank, sid)))
    IN  [resp EXCEPT ![sid].questions = PutQuestion(@, q, answer)]

\* the main page of session i of the current bank can show question q
Asks(i, q) ==
    \E j \in 1..Len(current_question_bank[i].questions) :
        current_question_bank[i].questions[j] = q

\* "Save Story" on the page of a question of a session of the current
\* bank: save_response, whose save_user_data writes, and the rerun that
\* loads the file again
SaveResponseOf(i, q, answer) ==
    LET sid == current_question_bank[i].id
        resp == SavedResponses(sid, q, answer)
    IN  /\ logged_in
        /\ Asks(i, q)
        /\ user_files' = Put(user_files, user_id, JsonResponses(resp))
        /\ responses' = LoadUserDataFrom(JsonResponses(resp), resp)
        /\ app_data_loaded' = TRUE
        /\ durable' = Put(durable, <<user_id, sid, q>>, answer)
        /\ UNCHANGED <<account_files, accounts_index, bank_files, logged_in,
                       user_id, current_question_bank, current_bank_id, auth>>

SaveResponse ==
    \E i \in 1..Len(current_question_bank), q \in Questions, answer \in Answers :
        SaveResponseOf(i, q, answer)

\* "Delete" under an existing answer: delete_response and the rerun
DeleteResponse ==
    \E i \in 1..Len(current_question_bank), q \in Questions :
        LET sid == current_question_bank[i].id
            resp == [responses EXCEPT ![sid].questions = DelQuestion(@, q)]
        IN  /\ logged_in
            /\ Asks(i, q)
            /\ sid \in DOMAIN responses
            /\ HasQuestion(responses[sid].questions, q)
            /\ user_files' = Put(user_files, user_id, JsonResponses(resp))
            /\ responses' = LoadUserDataFrom(JsonResponses(resp), resp)
            /\ app_data_loaded' = TRUE
            /\ durable' = Del(durable, <<user_id, sid, q>>)
            /\ UNCHANGED <<account_files, accounts_index, bank_files, logged_in,
                           user_id, current_question_bank, current_bank_id, auth>>

\* for idx, s in enumerate(sessions): s['id'] = idx + 1
Renumbered(sessions) ==
    [i \in 1..Len(sessions) |-> [sessions[i] EXCEPT !.id = i]]

Swapped(sessions, i, j) ==
    [k \in 1..Len(sessions) |->
        IF k = i THEN sessions[j] ELSE IF k = j THEN sessions[i] ELSE sessions[k]]

Removed(sessions, i) ==
    SubSeq(sessions, 1, i - 1) \o SubSeq(sessions, i + 1, Len(sessions))

\* max([s['id'] for s in sessions], default=0)
MaxId(sessions) ==
    IF sessions = <<>> THEN 0
    ELSE LET ids == {sessions[i].id : i \in 1..Len(sessions)}
         IN  CHOOSE m \in ids : \A n \in ids : n <= m

HasCustomBank == logged_in /\ user_id \in DOMAIN bank_files

\* save_user_bank(bank_id, sessions): the bank file, never the session state
SaveUserBank(sessions) ==
    /\ bank_files' = Put(bank_files, user_id, sessions)
    /\ UNCHANGED <<account_files, accounts_index, user_files, session, auth, durable>>

\* "Create Bank": from scratch, or from the default bank
CreateCustomBank ==
    \E copy_from \in BOOLEAN :
        /\ logged_in
        /\ user_id \notin DOMAIN bank_files
        /\ SaveUserBank(IF copy_from THEN DefaultBank ELSE <<>>)

\* the editor's "Add New Session"
AddNewSession ==
    /\ HasCustomBank
    /\ Len(bank_files[user_id]) < MaxSessions
    /\ SaveUserBank(Append(bank_files[user_id],
                           Session(MaxId(bank_files[user_id]) + 1, "New Session")))

\* the editor's "Move Up" of session i
MoveUp ==
    /\ HasCustomBank
    /\ \E i \in 2..Len(bank_files[user_id]) :
           SaveUserBank(Renumbered(Swapped(bank_files[user_id], i, i - 1)))

\* the editor's "Move Down" of session i
MoveDown ==
    /\ HasCustomBank
    /\ \E i \in 1..(Len(bank_files[user_id]) - 1) :
           SaveUserBank(Renumbered(Swapped(bank_files[user_id], i, i + 1)))

\* the editor's "Save" of session i with the title typed
SaveSession ==
    /\ HasCustomBank
    /\ \E i \in 1..Len(bank_files[user_id]), new_title \in EditedTitles :
           SaveUserBank([bank_files[user_id] EXCEPT ![i].title = new_title])

\* the editor's "Delete" of session i
DeleteSession ==
    /\ HasCustomBank
    /\ \E i \in 1..Len(bank_files[user_id]) :
           SaveUserBank(Renumbered(Removed(bank_files[user_id], i)))

\* a bank's "Load" button: nothing when the bank is the loaded one or has no
\* sessions; data_loaded is left as it is
LoadBank(bank_id, sessions) ==
    /\ logged_in
    /\ current_bank_id # bank_id
    /\ sessions # <<>>
    /\ current_question_bank' = sessions
    /\ current_bank_id' = bank_id
    /\ responses' = AddSessions(responses, sessions)
    /\ UNCHANGED <<files, logged_in, user_id, app_data_loaded, auth, durable>>

LoadUserBank == HasCustomBank /\ LoadBank(CustomBankId, bank_files[user_id])

LoadDefaultBank == LoadBank(DefaultBankId, DefaultBank)

RECURSIVE ExportRows(_, _)
\* the sidebar's export assembly: for session in SESSIONS, for q, a in the
\* session's answered questions, one row; a row is the position of the
\* session in the bank and the dict appended to export_data
ExportRows(bank, pos) ==
    IF pos > Len(bank) THEN <<>>
    ELSE LET sdata == Get(responses, bank[pos].id, NewResponse(""))
             Row(i) == [session |-> pos,
                        story |-> [question |-> sdata.questions[i].question,
                                   answer_text |-> StripTags(sdata.questions[i].answer),
                                   session_title |-> bank[pos].title,
                                   images |-> <<>>]]
         IN  [i \in 1..Len(sdata.questions) |-> Row(i)] \o ExportRows(bank, pos + 1)

export_data ==
    LET rows == ExportRows(current_question_bank, 1)
    IN  [i \in 1..Len(rows) |-> rows[i].story]

\* the titles of the vignettes written
VignetteTitles == {"v1", "v2"}

\* VignetteManager(user_id): the file of this user, loaded
VignetteManager(uid) == [user_id |-> uid, vignettes |-> Get(vignette_files, uid, <<>>)]

\* if 'vignette_manager' not in st.session_state: ... = VignetteManager(user_id)
SessionVignetteManager ==
    IF vignette_manager = NoManager THEN VignetteManager(user_id) ELSE vignette_manager

\* "View All" in the sidebar: show_vignette_manager shows the gallery of
\* the session's manager
ViewVignettes ==
    /\ logged_in
    /\ vignette_manager' = SessionVignetteManager
    /\ UNCHANGED vignette_files

\* "New Vignette" and "Publish" with a title and a content: the session's
\* manager appends the vignette and writes its own file
PublishVignette ==
    \E title \in VignetteTitles :
        LET manager == SessionVignetteManager
            vignettes == Append(manager.vignettes, title)
        IN  /\ logged_in
            /\ Len(manager.vignettes) < MaxVignettes
            /\ vignette_manager' = [manager EXCEPT !.vignettes = vignettes]
            /\ vignette_files' = Put(vignette_files, manager.user_id, vignettes)

\* \w of the regular expressions: a letter, a digit or the underscore
IsWordChar(c) ==
    c \notin Whitespace \cup {"<", ">", "/", "&", ";", ".", ",", "!", "?", "-", "'", "="}

\* len(re.findall(r'\w+', text)): the runs of word characters
word_count(text) ==
    Cardinality({i \in 1..Len(text) :
                    IsWordChar(text[i]) /\ (i = 1 \/ ~IsWordChar(text[i - 1]))})

\* the words of an answer: of its text without the tags
AnswerWords(answer) == word_count(StripTags(answer))

RECURSIVE QuestionsWords(_)
\* for q, d in questions.items(): total += the words of d["answer"]
QuestionsWords(questions) ==
    IF questions = <<>> THEN 0
    ELSE AnswerWords(Head(questions).answer) + QuestionsWords(Tail(questions))

RECURSIVE ResponsesWords(_, _)
\* the words of all answers of the sessions sids of a responses dict
ResponsesWords(resp, sids) ==
    IF sids = {} THEN 0
    ELSE LET sid == CHOOSE x \in sids : TRUE
         IN  QuestionsWords(resp[sid].questions) + ResponsesWords(resp, sids \ {sid})

\* the admin dashboard's count: the words of the answers in the data file
StoredWords(uid) ==
    LET stored == Get(user_files, uid, EmptyDict)
    IN  ResponsesWords(stored, DOMAIN stored)

\* the answers typed where words are counted: one word, and two words in a
\* paragraph
CountedAnswers == {<<"x">>, <<"<", "p", ">", "x", " ", "y">>}

\* "Save Story" with the account statistics: save_response adds the words
\* of the answer to stats.total_words and saves the account
SaveResponseCounted ==
    \E i \in 1..Len(current_question_bank), q \in Questions, answer \in CountedAnswers :
        /\ logged_in
        /\ total_words[user_id] + AnswerWords(answer) <= MaxWords
        /\ SaveResponseOf(i, q, answer)
        /\ total_words' = [total_words EXCEPT ![user_id] = @ + AnswerWords(answer)]

\* create_backup, run when the profile's "Backup & Restore" is shown: the
\* user id, the account and the responses as JSON
CreateBackup ==
    /\ logged_in
    /\ backup' = [user_id |-> user_id,
                  user_account |-> account_files[user_id],
                  total_words |-> total_words[user_id],
                  responses |-> JsonResponses(responses)]
    /\ at_backup' = [user_account |-> account_files[user_id],
                     total_words |-> total_words[user_id],
                     responses |-> responses,
                     responses_str |-> responses_str]
    /\ UNCHANGED <<app, stats, responses_str>>

\* restore_from_backup(backup_json) of a backup of the user of the session:
\* the account and the responses are taken from the JSON and saved; the
\* responses are then the dict that json.loads made
RestoreFromBackup ==
    /\ backup # NoBackup
    /\ backup.user_id = user_id
    /\ account_files' = Put(account_files, user_id, backup.user_account)
    /\ total_words' = [total_words EXCEPT ![user_id] = backup.total_words]
    /\ responses' = EmptyDict
    /\ responses_str' = backup.responses
    /\ user_files' = Put(user_files, user_id, backup.responses)
    /\ UNCHANGED <<accounts_index, bank_files, logged_in, user_id, app_data_loaded,
                   current_question_bank, current_bank_id, auth, durable,
                   backup, at_backup>>

\* a data file written without looking at the existing one
save_user_data_afresh(existing) == NoFields

\* save_user_data: "vignettes" and "beta_feedback" are those of the
\* existing file
save_user_data_fields(existing) ==
    [vignettes |-> existing.vignettes, beta_feedback |-> existing.beta_feedback]

\* the fields save_user_data writes next to the responses, in the data file
\* of the user of the session
SaveUserDataFields ==
    /\ user_file_fields' =
           [user_file_fields EXCEPT ![user_id] = save_user_data_fields(@)]
    /\ last_writer' = "save_user_data"

\* the feedback texts of the beta reader
Feedbacks == {"f1", "f2"}

\* "Save to Profile" in the beta reader's modal on the page of session i:
\* save_feedback reads the data file, or takes an empty one, sets
\* beta_feedback[str(session_id)] and writes it all
SaveFeedback ==
    \E i \in 1..Len(current_question_bank), feedback_data \in Feedbacks :
        LET session_id == current_question_bank[i].id
        IN  /\ logged_in
            /\ user_file_fields' =
                   [user_file_fields EXCEPT
                       ![user_id].beta_feedback = Put(@, session_id, feedback_data)]
            /\ user_files' = Put(user_files, user_id, load_user_data(user_id))
            /\ last_writer' = "save_feedback"
            /\ UNCHANGED <<account_files, accounts_index, bank_files, session,
                           auth, durable>>

\* what a secret can be: missing, empty, or a text
SecretValues == {None, <<>>, <<"u">>, <<"s">>}

\* what is typed into the login form of the admin dashboard
AdminInputs == {<<>>, <<"u">>, <<"s">>}

\* not secret: None and "" are falsy
Falsy(secret) == secret \in {None, <<>>}

\* a login that looks at the username only
CredentialsMatchUsername(username, password) ==
    /\ ~(Falsy(admin_secrets.ADMIN_USERNAME) \/ Falsy(admin_secrets.ADMIN_PASSWORD))
    /\ username = admin_secrets.ADMIN_USERNAME

\* the Login button's conditions: both secrets are configured, and the
\* username and the password typed equal them
CredentialsMatch(username, password) ==
    /\ ~(Falsy(admin_secrets.ADMIN_USERNAME) \/ Falsy(admin_secrets.ADMIN_PASSWORD))
    /\ username = admin_secrets.ADMIN_USERNAME
    /\ password = admin_secrets.ADMIN_PASSWORD

\* check_admin_password(): the login form is shown and False returned while
\* admin_authenticated is False; `if not check_admin_password(): st.stop()`
check_admin_password == admin_authenticated

\* "Login" of the admin dashboard's form
AdminLogin ==
    \E username \in AdminInputs, password \in AdminInputs :
        /\ ~check_admin_password
        /\ admin_authenticated' = CredentialsMatch(username, password)
        /\ admin_click' = [button |-> "Login", username |-> username,
                           password |-> password]
        /\ UNCHANGED <<admin_secrets, app>>

\* "Logout" in the sidebar of the dashboard
AdminLogout ==
    /\ check_admin_password
    /\ admin_authenticated' = FALSE
    /\ admin_click' = [NoClick EXCEPT !.button = "Logout"]
    /\ UNCHANGED <<admin_secrets, app>>

\* a button of the dashboard's content, which the script reaches only after
\* the gate
AdminContent(button) ==
    /\ check_admin_password
    /\ admin_click' = [NoClick EXCEPT !.button = button]
    /\ UNCHANGED <<admin_secrets, admin_authenticated>>

\* the bank made by "Create Editable" on the default bank
EditableBankId == "life_story_comprehensive_chapters"

\* MAIN CONTENT AREA of the script run after a handler that left
\* current_session at s and current_question at q: both are reset to 0 when
\* past the end, the question only when no custom topic is shown
MainContent(s, q) ==
    LET SESSIONS == current_question_bank'
        cs == IF s >= Len(SESSIONS) THEN 0 ELSE s
        questions == SESSIONS[cs + 1].questions
    IN  /\ current_session_index' = cs
        /\ current_question' =
               IF current_question_override # None THEN q
               ELSE IF q >= Len(questions) THEN 0 ELSE q
        /\ UNCHANGED current_question_override

\* the script run after a handler that leaves the position alone
Rerun == MainContent(current_session_index, current_question)

\* current_question_text of the page shown: the custom topic, or
\* current_session["questions"][current_question], which raises IndexError
\* when the index is past the end of the list
current_question_text ==
    LET questions == current_question_bank[current_session_index + 1].questions
    IN  IF current_question_override # None THEN current_question_override
        ELSE IF current_question < Len(questions) THEN questions[current_question + 1]
        ELSE "IndexError"

\* the script run reached the answer editor and the buttons under it
Rendered == logged_in /\ current_question_text # "IndexError"

\* "Create Editable" on the default bank: a copy of its sessions with
\* 'questions': [] in each
CreateEditableBank ==
    /\ logged_in
    /\ user_id \notin DOMAIN editable_files
    /\ editable_files' =
           Put(editable_files, user_id,
               [i \in 1..Len(DefaultBank) |->
                   Session(DefaultBank[i].id, DefaultBank[i].title)])
    /\ UNCHANGED app
    /\ Rerun

\* "Load" of the editable bank
LoadEditableBank ==
    /\ logged_in
    /\ user_id \in DOMAIN editable_files
    /\ LoadBank(EditableBankId, editable_files[user_id])
    /\ Rerun
    /\ UNCHANGED editable_files

\* the editor's "Add" of a new topic to session i of the custom bank
AddTopic ==
    /\ HasCustomBank
    /\ \E i \in 1..Len(bank_files[user_id]), new_topic \in Questions :
           /\ Len(bank_files[user_id][i].questions) < MaxTopics
           /\ SaveUserBank([bank_files[user_id] EXCEPT
                               ![i].questions = Append(@, new_topic)])

\* a session's button in the sidebar
SelectSession ==
    \E i \in 0..(Len(current_question_bank) - 1) :
        /\ logged_in
        /\ UNCHANGED app
        /\ MainContent(i, 0)
        /\ UNCHANGED editable_files

\* "Next" under the answer editor
NextQuestion ==
    LET questions == current_question_bank[current_session_index + 1].questions
    IN  /\ Rendered
        /\ current_question < Len(questions) - 1
        /\ UNCHANGED app
        /\ MainContent(current_session_index, current_question + 1)
        /\ UNCHANGED editable_files

\* "Next Session", shown in place of "Next" on the last question
NextSession ==
    LET questions == current_question_bank[current_session_index + 1].questions
    IN  /\ Rendered
        /\ ~(current_question < Len(questions) - 1)
        /\ current_session_index < Len(current_question_bank) - 1
        /\ UNCHANGED app
        /\ MainContent(current_session_index + 1, 0)
        /\ UNCHANGED editable_files


----------------------------------------------------------------------------
(* The specifications.                                                     *)

\* history: "none" before the first click of a page view, "failed" once a
\* click of the view has failed, "generated" otherwise
EarlierAfterClick ==
    IF out = NoResult THEN earlier
    ELSE IF out.status # "ok" \/ earlier = "failed" THEN "failed"
    ELSE "generated"

Init ==
    \E inp \in Inputs :
        /\ stories = inp.stories
        /\ data_loaded = TRUE
        /\ book_title = inp.title
        /\ author_name = inp.author
        /\ format_style = inp.style
        /\ include_toc = inp.toc
        /\ include_images = inp.images
        /\ cover_choice = inp.choice
        /\ uploaded_cover = inp.upload
        /\ out = NoResult
        /\ earlier = "none"
        /\ NoStripping
        /\ AppAtStart

\* the history is kept for the publisher page only
Next ==
    \/ ClickGenerateDocx /\ UNCHANGED <<earlier, not_page>>
    \/ ClickGenerateHtml /\ UNCHANGED <<earlier, not_page>>
    \/ ClickGenerateZip /\ UNCHANGED <<earlier, not_page>>
    \/ SidebarDocx /\ UNCHANGED <<earlier, not_page>>
    \/ SidebarHtml /\ UNCHANGED <<earlier, not_page>>
    \/ SidebarZip /\ UNCHANGED <<earlier, not_page>>
    \/ ApplyBiographerDocx /\ UNCHANGED <<earlier, not_page>>
    \/ ApplyBiographerPdf /\ UNCHANGED <<earlier, not_page>>
    \/ ApplyBiographerZip /\ UNCHANGED <<earlier, not_page>>

Spec == Init /\ [][Next]_vars

----------------------------------------------------------------------------
(* The publisher page (main of biography_publisher.py): the stories are    *)
(* loaded, the widgets are set, and a generate button is clicked.  Every   *)
(* interaction reruns the script; a result is shown only in the run of its *)
(* click.                                                                  *)

\* SAMPLE_STORIES: two records of one session, one of another, no images
SampleStories ==
    <<Story(<<"A">>, <<"Q">>, <<"a">>), Story(<<"A">>, <<"Q">>, <<"a">>),
      Story(<<"B">>, <<"Q">>, <<"b">>)>>

\* the "stories" of the JSON files the model uploads
UploadedStories ==
    {<<>>,
     <<StoryWithImages(<<"A">>, <<"Q">>, <<"a">>,
                       <<Image("anBnQ", <<"c">>), Image("anBnQQ==", <<"c">>)>>)>>}

BookTitles == {<<"T">>, <<"a", " ", "b">>}
AuthorNames == {<<"J">>, <<"&">>}

\* the page as a new browser session finds it
PageAtStart ==
    /\ stories = <<>>
    /\ data_loaded = FALSE
    /\ book_title = <<"T">>
    /\ author_name = <<"J">>
    /\ format_style = "interview"
    /\ include_toc = TRUE
    /\ include_images = TRUE
    /\ cover_choice = "simple"
    /\ uploaded_cover = "NoFile"
    /\ out = NoResult
    /\ earlier = "none"

InitPage == PageAtStart /\ NoStripping /\ AppAtStart

\* tab "Upload JSON": a file with a "stories" key
UploadJson ==
    \E data \in UploadedStories :
        /\ stories' = data
        /\ data_loaded' = TRUE
        /\ out' = NoResult
        /\ UNCHANGED <<book_title, author_name, format_style, include_toc,
                       include_images, cover_choice, uploaded_cover>>

\* tab "Use Sample Data", button "Load Sample Stories"
LoadSampleStories ==
    /\ stories' = SampleStories
    /\ data_loaded' = TRUE
    /\ out' = NoResult
    /\ UNCHANGED <<book_title, author_name, format_style, include_toc,
                   include_images, cover_choice, uploaded_cover>>

EditBookTitle ==
    /\ CanPublish
    /\ \E t \in BookTitles : book_title' = t
    /\ out' = NoResult
    /\ UNCHANGED <<stories, data_loaded, author_name, format_style, include_toc,
                   include_images, cover_choice, uploaded_cover>>

EditAuthorName ==
    /\ CanPublish
    /\ \E a \in AuthorNames : author_name' = a
    /\ out' = NoResult
    /\ UNCHANGED <<stories, data_loaded, book_title, format_style, include_toc,
                   include_images, cover_choice, uploaded_cover>>

SelectFormatStyle ==
    /\ CanPublish
    /\ \E s \in FormatStyles : format_style' = s
    /\ out' = NoResult
    /\ UNCHANGED <<stories, data_loaded, book_title, author_name, include_toc,
                   include_images, cover_choice, uploaded_cover>>

ToggleToc ==
    /\ CanPublish
    /\ include_toc' = ~include_toc
    /\ out' = NoResult
    /\ UNCHANGED <<stories, data_loaded, book_title, author_name, format_style,
                   include_images, cover_choice, uploaded_cover>>

ToggleImages ==
    /\ CanPublish
    /\ include_images' = ~include_images
    /\ out' = NoResult
    /\ UNCHANGED <<stories, data_loaded, book_title, author_name, format_style,
                   include_toc, cover_choice, uploaded_cover>>

\* radio "Cover Type": with "simple" the uploader is not rendered, and the
\* framework keeps or drops the file it held
SelectCoverType ==
    /\ CanPublish
    /\ \E c \in {"simple", "uploaded"} :
          /\ cover_choice' = c
          /\ uploaded_cover' \in (IF c = "simple" THEN {uploaded_cover, "NoFile"}
                                  ELSE {uploaded_cover})
    /\ out' = NoResult
    /\ UNCHANGED <<stories, data_loaded, book_title, author_name, format_style,
                   include_toc, include_images>>

\* file_uploader "Upload Cover Image", rendered under "uploaded" only: a file
\* is chosen or removed
UploadCover ==
    /\ CanPublish
    /\ cover_choice = "uploaded"
    /\ \E u \in Uploads : uploaded_cover' = u
    /\ out' = NoResult
    /\ UNCHANGED <<stories, data_loaded, book_title, author_name, format_style,
                   include_toc, include_images, cover_choice>>

\* a change of the data or of a widget starts a new page view
NextPage ==
    \/ UploadJson /\ earlier' = "none" /\ UNCHANGED not_page
    \/ LoadSampleStories /\ earlier' = "none" /\ UNCHANGED not_page
    \/ EditBookTitle /\ earlier' = "none" /\ UNCHANGED not_page
    \/ EditAuthorName /\ earlier' = "none" /\ UNCHANGED not_page
    \/ SelectFormatStyle /\ earlier' = "none" /\ UNCHANGED not_page
    \/ ToggleToc /\ earlier' = "none" /\ UNCHANGED not_page
    \/ ToggleImages /\ earlier' = "none" /\ UNCHANGED not_page
    \/ SelectCoverType /\ earlier' = "none" /\ UNCHANGED not_page
    \/ UploadCover /\ earlier' = "none" /\ UNCHANGED not_page
    \/ ClickGenerateDocx /\ earlier' = EarlierAfterClick /\ UNCHANGED not_page
    \/ ClickGenerateHtml /\ earlier' = EarlierAfterClick /\ UNCHANGED not_page
    \/ ClickGenerateZip /\ earlier' = EarlierAfterClick /\ UNCHANGED not_page

SpecPage == InitPage /\ [][NextPage]_vars

----------------------------------------------------------------------------
(* The markup stripping of the export: the sidebar of biographer.py and    *)
(* load_from_main_app of biography_publisher.py make answer_text of a      *)
(* stored answer with re.sub(r'<[^>]+>', '', answer).                      *)

\* "<p>Hello <b>World</b></p>"
HelloWorldMarkup ==
    <<"<", "p", ">", "H", "e", "l", "l", "o", " ", "<", "b", ">", "W", "o", "r", "l", "d",
      "<", "/", "b", ">", "<", "/", "p", ">">>

\* every short text over "<", ">" and a letter, and the sample markup
Markups == Texts({"<", ">", "a"}, MaxMarkupLen) \cup {HelloWorldMarkup}

InitStrip ==
    /\ PageAtStart
    /\ markup \in Markups
    /\ stripped = None
    /\ restripped = None
    /\ AppAtStart

\* the export assembles a record from the stored answer
StripAnswer ==
    /\ stripped = None
    /\ stripped' = StripTags(markup)
    /\ UNCHANGED <<markup, restripped>>

\* the stripping applied to an answer_text it has made
StripAgain ==
    /\ stripped # None
    /\ restripped = None
    /\ restripped' = StripTags(stripped)
    /\ UNCHANGED <<markup, stripped>>

NextStrip ==
    \/ StripAnswer /\ UNCHANGED not_strip
    \/ StripAgain /\ UNCHANGED not_strip

SpecStrip == InitStrip /\ [][NextStrip]_vars

\* the accounts: sign-up and login in the application, "Add User" in the
\* admin dashboard
InitAccounts == PageAtStart /\ NoStripping /\ AppAtStart

NextAccounts ==
    \/ Login /\ UNCHANGED not_app
    \/ SignUp /\ UNCHANGED not_app
    \/ AdminAddUser /\ UNCHANGED not_app
    \/ AdminDeleteUser /\ UNCHANGED not_app
    \/ Logout /\ UNCHANGED not_app

SpecAccounts == InitAccounts /\ [][NextAccounts]_vars

\* one user has signed up
OneAccount ==
    /\ account_files = Put(EmptyDict, 1, SignUpRecord(1, <<"a">>, <<"p">>))
    /\ accounts_index = <<[user_id |-> 1, email |-> <<"a">>]>>
    /\ user_files = EmptyDict
    /\ vignette_files = EmptyDict
    /\ NavAtStart
    /\ StatsAtStart
    /\ NoBackupYet
    /\ FeedbackAtStart
    /\ AdminAtStart
    /\ durable = EmptyDict

\* the question banks: the user is logged in, works on a custom bank in the
\* bank manager and its editor, loads banks and saves answers
InitBanks ==
    /\ PageAtStart
    /\ NoStripping
    /\ OneAccount
    /\ bank_files = EmptyDict
    /\ vignette_manager = NoManager
    /\ logged_in = TRUE
    /\ user_id = 1
    /\ responses = AddSessions(EmptyDict, DefaultBank)
    /\ app_data_loaded = TRUE
    /\ current_question_bank = DefaultBank
    /\ current_bank_id = DefaultBankId
    /\ auth = AuthResult("login", <<"a">>, <<"p">>, TRUE, 1)

NextBanks ==
    \/ CreateCustomBank /\ UNCHANGED not_app
    \/ AddNewSession /\ UNCHANGED not_app
    \/ MoveUp /\ UNCHANGED not_app
    \/ MoveDown /\ UNCHANGED not_app
    \/ SaveSession /\ UNCHANGED not_app
    \/ DeleteSession /\ UNCHANGED not_app
    \/ LoadUserBank /\ UNCHANGED not_app
    \/ LoadDefaultBank /\ UNCHANGED not_app
    \/ SaveResponse /\ UNCHANGED not_app

SpecBanks == InitBanks /\ [][NextBanks]_vars

\* the answers of one user: the user has a custom bank made from the default
\* bank with a session added and a topic added to that session, and is at
\* the login form of a new browser session
InitAnswers ==
    /\ PageAtStart
    /\ NoStripping
    /\ OneAccount
    /\ bank_files = Put(EmptyDict, 1,
                        Append(DefaultBank,
                               SessionOf(MaxId(DefaultBank) + 1, "New Session", <<"q1">>)))
    /\ SessionAtStart
    /\ auth = NoAuth

NextAnswers ==
    \/ Login /\ UNCHANGED not_app
    \/ Logout /\ UNCHANGED not_app
    \/ SaveResponse /\ UNCHANGED not_app
    \/ DeleteResponse /\ UNCHANGED not_app
    \/ LoadUserBank /\ UNCHANGED not_app
    \/ LoadDefaultBank /\ UNCHANGED not_app

SpecAnswers == InitAnswers /\ [][NextAnswers]_vars

\* two users of one browser: both have signed up, and the browser session
\* is at the login form
TwoAccounts ==
    /\ account_files = Put(Put(EmptyDict, 1, SignUpRecord(1, <<"a">>, <<"p">>)),
                           2, SignUpRecord(2, <<"b">>, <<"q">>))
    /\ accounts_index = <<[user_id |-> 1, email |-> <<"a">>],
                          [user_id |-> 2, email |-> <<"b">>]>>
    /\ user_files = EmptyDict
    /\ bank_files = EmptyDict
    /\ vignette_files = EmptyDict
    /\ NavAtStart
    /\ StatsAtStart
    /\ NoBackupYet
    /\ FeedbackAtStart
    /\ AdminAtStart
    /\ durable = EmptyDict

InitSwitch ==
    /\ PageAtStart
    /\ NoStripping
    /\ TwoAccounts
    /\ SessionAtStart
    /\ auth = NoAuth

NextSwitch ==
    \/ Login /\ UNCHANGED not_app
    \/ Logout /\ UNCHANGED not_app
    \/ SaveResponse /\ UNCHANGED not_app
    \/ ViewVignettes /\ UNCHANGED not_vign
    \/ PublishVignette /\ UNCHANGED not_vign

SpecSwitch == InitSwitch /\ [][NextSwitch]_vars

\* the main page: the user is logged in, makes banks in the bank manager,
\* loads banks, and moves through the sessions and questions
NextNav ==
    \/ CreateCustomBank /\ Rerun /\ UNCHANGED <<editable_files, not_app_nav>>
    \/ AddNewSession /\ Rerun /\ UNCHANGED <<editable_files, not_app_nav>>
    \/ AddTopic /\ Rerun /\ UNCHANGED <<editable_files, not_app_nav>>
    \/ LoadUserBank /\ Rerun /\ UNCHANGED <<editable_files, not_app_nav>>
    \/ LoadDefaultBank /\ Rerun /\ UNCHANGED <<editable_files, not_app_nav>>
    \/ CreateEditableBank /\ UNCHANGED not_app_nav
    \/ LoadEditableBank /\ UNCHANGED not_app_nav
    \/ SelectSession /\ UNCHANGED not_app_nav
    \/ NextQuestion /\ UNCHANGED not_app_nav
    \/ NextSession /\ UNCHANGED not_app_nav

SpecNav == InitBanks /\ [][NextNav]_vars

\* the statistics: the user of SpecAnswers, with the words counted
NextWords ==
    \/ Login /\ UNCHANGED not_app
    \/ Logout /\ UNCHANGED not_app
    \/ SaveResponseCounted /\ UNCHANGED not_app_stats
    \/ DeleteResponse /\ UNCHANGED not_app
    \/ LoadUserBank /\ UNCHANGED not_app
    \/ LoadDefaultBank /\ UNCHANGED not_app

SpecWords == InitAnswers /\ [][NextWords]_vars

\* backup and restore: the user is logged in, saves and deletes answers,
\* makes backups and restores the last one
NextBackup ==
    \/ SaveResponseCounted /\ UNCHANGED not_app_stats
    \/ DeleteResponse /\ UNCHANGED not_app
    \/ CreateBackup /\ UNCHANGED not_app_stats_bak
    \/ RestoreFromBackup /\ UNCHANGED not_app_stats_bak

SpecBackup == InitBanks /\ [][NextBackup]_vars

\* the writers of the data file: the user is logged in, saves and deletes
\* answers and saves the beta reader's feedback
NextFeedback ==
    \/ SaveResponse /\ SaveUserDataFields /\ UNCHANGED not_app_fb
    \/ DeleteResponse /\ SaveUserDataFields /\ UNCHANGED not_app_fb
    \/ SaveFeedback /\ UNCHANGED not_app_fb

SpecFeedback == InitBanks /\ [][NextFeedback]_vars

\* the admin dashboard: one user has signed up; the secrets are any of the
\* configurations, and the admin logs in, adds and deletes users and logs
\* out
InitAdmin ==
    /\ PageAtStart
    /\ NoStripping
    /\ account_files = Put(EmptyDict, 1, SignUpRecord(1, <<"a">>, <<"p">>))
    /\ accounts_index = <<[user_id |-> 1, email |-> <<"a">>]>>
    /\ user_files = EmptyDict
    /\ bank_files = EmptyDict
    /\ vignette_files = EmptyDict
    /\ durable = EmptyDict
    /\ NavAtStart
    /\ StatsAtStart
    /\ NoBackupYet
    /\ FeedbackAtStart
    /\ SessionAtStart
    /\ auth = NoAuth
    /\ admin_secrets \in [ADMIN_USERNAME : SecretValues, ADMIN_PASSWORD : SecretValues]
    /\ admin_authenticated = FALSE
    /\ admin_click = NoClick

NextAdmin ==
    \/ AdminLogin /\ UNCHANGED not_app_adm
    \/ AdminLogout /\ UNCHANGED not_app_adm
    \/ AdminContent("Create User") /\ AdminAddUser /\ UNCHANGED not_app_adm
    \/ AdminContent("Yes, Delete") /\ AdminDeleteUser /\ UNCHANGED not_app_adm

SpecAdmin == InitAdmin /\ [][NextAdmin]_vars

----------------------------------------------------------------------------
(* Reading a generated document.                                           *)

\* how many elements before position p satisfy Is
CountBefore(doc, p, Is(_)) == Cardinality({q \in 1..(p - 1) : Is(doc[q])})

\* the texts of the elements that satisfy Is, in document order
TextsOf(doc, Is(_)) ==
    LET picked == SelectSeq(doc, Is) IN [i \in 1..Len(picked) |-> picked[i].text]

IsHr(e) == e.kind = "hr"
IsH2(e) == e.kind = "h2"
IsHtmlQuestion(e) == e.kind = "div" /\ e.style = "question"
IsHtmlAnswer(e) == e.kind = "p" /\ e.style = ""
IsHtmlCaption(e) == e.kind = "p" /\ e.style = "image-caption"
IsDocxHeading(e) == e.kind = "paragraph" /\ e.style = "Heading 1"
IsDocxQuestion(e) == e.kind = "paragraph" /\ e.style = "bold italic"
IsDocxAnswer(e) == e.kind = "paragraph" /\ e.style = "Normal"
IsPicture(e) == e.kind = "picture"
IsPageBreak(e) == e.kind = "page_break"

\* the records at which a new run of equal session titles starts
RunStarts ==
    {k \in 1..Len(stories) :
        k = 1 \/ stories[k].session_title # stories[k - 1].session_title}

RECURSIVE Ascending(_)
\* the elements of a finite set of numbers, in ascending order
Ascending(S) ==
    IF S = {} THEN <<>>
    ELSE LET least == CHOOSE x \in S : \A y \in S : x <= y
         IN  <<least>> \o Ascending(S \ {least})

\* the session titles at the run starts, in input order
RunTitles ==
    LET starts == Ascending(RunStarts)
    IN  [i \in 1..Len(starts) |-> stories[starts[i]].session_title]

\* s occurs in t as a contiguous part
IsPartOf(s, t) ==
    \E i \in 0..(Len(t) - Len(s)) : SubSeq(t, i + 1, i + Len(s)) = s

PublisherHtmlDone == out.gen = "publisher_html" /\ out.status = "ok"
PublisherDocxDone == out.gen = "publisher_docx" /\ out.status = "ok"
PublisherZipDone == out.gen = "publisher_zip" /\ out.status = "ok"

----------------------------------------------------------------------------
(* C1: generate_html and generate_docx of biography_publisher emit a       *)
(* session heading exactly at the first record and at each record whose    *)
(* session_title differs from the previous record's, in input order: the   *)
(* headings are the titles of the runs of equal consecutive titles (so a   *)
(* title that recurs after another one is headed again).  In the HTML each *)
(* heading stands in its record (after the rule that closes the record     *)
(* before); in an interview DOCX it stands before its record's question.   *)
C1_HeadingPerRun ==
    /\ PublisherHtmlDone =>
          /\ TextsOf(out.doc, IsH2) = RunTitles
          /\ \A p \in 1..Len(out.doc) :
                IsH2(out.doc[p]) =>
                    LET k == CountBefore(out.doc, p, IsHr) + 1
                    IN  /\ k \in RunStarts
                        /\ out.doc[p].text = stories[k].session_title
                        /\ CountBefore(out.doc, p, IsH2) = Cardinality({r \in RunStarts : r < k})
    /\ PublisherDocxDone =>
          /\ TextsOf(out.doc, IsDocxHeading) = RunTitles
          /\ format_style = "interview" =>
                \A p \in 1..Len(out.doc) :
                    IsDocxHeading(out.doc[p]) =>
                        LET k == CountBefore(out.doc, p, IsDocxQuestion) + 1
                        IN  /\ k \in RunStarts
                            /\ out.doc[p].text = stories[k].session_title

\* titles A, B, A: three headings, the recurring title headed twice
C1_Witness ==
    /\ PublisherHtmlDone
    /\ [k \in 1..Len(stories) |-> stories[k].session_title] = <<<<"A">>, <<"B">>, <<"A">>>>
    /\ TextsOf(out.doc, IsH2) = <<<<"A">>, <<"B">>, <<"A">>>>

\* titles A, A, B: exactly two headings, A then B, in the DOCX
C1_WitnessDocx ==
    /\ PublisherDocxDone
    /\ [k \in 1..Len(stories) |-> stories[k].session_title] = <<<<"A">>, <<"A">>, <<"B">>>>
    /\ TextsOf(out.doc, IsDocxHeading) = <<<<"A">>, <<"B">>>>

----------------------------------------------------------------------------
(* C2: in generate_html and generate_docx of biography_publisher, with     *)
(* format_style "interview" every record's question is emitted, once, in   *)
(* its record and before the record's answer paragraphs; with any other    *)
(* format_style no question is emitted for any record.                     *)
C2_QuestionBeforeAnswer ==
    /\ (PublisherHtmlDone /\ format_style = "interview") =>
          /\ TextsOf(out.doc, IsHtmlQuestion) = [k \in 1..Len(stories) |-> stories[k].question]
          /\ \A p \in 1..Len(out.doc) :
                /\ IsHtmlQuestion(out.doc[p]) =>
                      CountBefore(out.doc, p, IsHtmlQuestion) = CountBefore(out.doc, p, IsHr)
                /\ IsHtmlAnswer(out.doc[p]) =>
                      CountBefore(out.doc, p, IsHtmlQuestion) = CountBefore(out.doc, p, IsHr) + 1
    /\ (PublisherDocxDone /\ format_style = "interview") =>
          /\ TextsOf(out.doc, IsDocxQuestion) = [k \in 1..Len(stories) |-> stories[k].question]
          /\ \A p \in 1..Len(out.doc) :
                IsDocxAnswer(out.doc[p]) =>
                    LET k == CountBefore(out.doc, p, IsDocxQuestion)
                    IN  k >= 1 /\ IsPartOf(out.doc[p].text, stories[k].answer_text)
    /\ (PublisherHtmlDone /\ format_style # "interview") =>
          \A p \in 1..Len(out.doc) : ~IsHtmlQuestion(out.doc[p])
    /\ (PublisherDocxDone /\ format_style # "interview") =>
          \A p \in 1..Len(out.doc) : ~IsDocxQuestion(out.doc[p])

\* an interview with two records: each question stands before its answer
C2_Witness ==
    /\ PublisherHtmlDone /\ format_style = "interview"
    /\ Len(stories) = 2
    /\ \E p \in 1..Len(out.doc) :
          /\ IsHtmlAnswer(out.doc[p]) /\ out.doc[p].text = <<"b">>
          /\ CountBefore(out.doc, p, IsHtmlQuestion) = 2

\* a memoir: answers and no question
C2_WitnessMemoir ==
    /\ PublisherDocxDone /\ format_style = "memoir"
    /\ \E p \in 1..Len(out.doc) : IsDocxAnswer(out.doc[p])

----------------------------------------------------------------------------
(* C3: in generate_html of biography_publisher every piece of user text    *)
(* put into the document (book title, author, session titles in the table *)
(* of contents and the headings, question, answer paragraphs, captions)    *)
(* has its markup characters replaced by entities, so no '<' or '>' of the *)
(* user's reaches the output.  The code escapes the answer paragraphs and  *)
(* the captions only.                                                      *)
C3_AllUserTextEscaped ==
    PublisherHtmlDone =>
        \A p \in 1..Len(out.doc) :
            /\ \A i \in 1..Len(out.doc[p].text) : out.doc[p].text[i] \notin {"<", ">"}
            /\ \A i \in 1..Len(out.doc[p].id) : out.doc[p].id[i] \notin {"<", ">"}

----------------------------------------------------------------------------
(* Entities: every character replaced at once by its entity.               *)

Entity(c) ==
    CASE c = "&" -> <<"&", "a", "m", "p", ";">>
      [] c = "<" -> <<"&", "l", "t", ";">>
      [] c = ">" -> <<"&", "g", "t", ";">>
      [] OTHER -> <<c>>

Entities(s) == Concat([i \in 1..Len(s) |-> Entity(s[i])])

\* the images of all stories, in input order
AllImages == Concat([k \in 1..Len(stories) |-> Get(stories[k], "images", <<>>)])

\* the answer paragraphs of all stories, in input order
AllParagraphs ==
    Concat([k \in 1..Len(stories) |-> AnswerParagraphs(stories[k].answer_text)])

\* the captions the HTML shows: of the images with data and a caption
ShownCaptions ==
    LET shown == SelectSeq(AllImages, LAMBDA img : img.base64 # "" /\ img.caption # <<>>)
    IN  [i \in 1..Len(shown) |-> shown[i].caption]

(* C4: in generate_html of biography_publisher every answer paragraph and  *)
(* every image caption is emitted as literal text: each '&', '<' and '>'   *)
(* of it is replaced by &amp;, &lt;, &gt; exactly once ('&' first, so the  *)
(* '&' of an entity is not escaped again), and no '<' or '>' remains.      *)
C4_AnswerAndCaptionEscaped ==
    PublisherHtmlDone =>
        /\ TextsOf(out.doc, IsHtmlAnswer) =
              [i \in 1..Len(AllParagraphs) |-> Entities(AllParagraphs[i])]
        /\ TextsOf(out.doc, IsHtmlCaption) =
              (IF include_images
               THEN [i \in 1..Len(ShownCaptions) |-> Entities(ShownCaptions[i])]
               ELSE <<>>)
        /\ \A p \in 1..Len(out.doc) :
              (IsHtmlAnswer(out.doc[p]) \/ IsHtmlCaption(out.doc[p])) =>
                  \A i \in 1..Len(out.doc[p].text) : out.doc[p].text[i] \notin {"<", ">"}

\* the answer "<&" comes out as "&lt;&amp;"
C4_Witness ==
    /\ PublisherHtmlDone
    /\ stories[1].answer_text = <<"<", "&">>
    /\ TextsOf(out.doc, IsHtmlAnswer) = << <<"&", "l", "t", ";", "&", "a", "m", "p", ";">> >>

\* the caption "<&" comes out escaped too
C4_WitnessCaption ==
    /\ PublisherHtmlDone
    /\ \E p \in 1..Len(out.doc) :
          /\ IsHtmlCaption(out.doc[p])
          /\ out.doc[p].text = <<"&", "l", "t", ";", "&", "a", "m", "p", ";">>

----------------------------------------------------------------------------
(* Images as the claims speak of them.                                     *)

HasData(img) == img.base64 # ""
Decodes(img) == HasData(img) /\ ~b64decode(img.base64).raised
Embeddable(img) == Decodes(img) /\ IsImage(b64decode(img.base64).data)

\* the bytes of the images a DOCX can embed, in input order
EmbeddableData ==
    LET good == SelectSeq(AllImages, Embeddable)
    IN  [i \in 1..Len(good) |-> b64decode(good[i].base64).data]

\* the captions of those images
EmbeddableCaptions ==
    LET good == SelectSeq(AllImages, LAMBDA img : Embeddable(img) /\ img.caption # <<>>)
    IN  [i \in 1..Len(good) |-> good[i].caption]

\* the bytes of the images whose base64 decodes, in input order
DecodableData ==
    LET good == SelectSeq(AllImages, Decodes)
    IN  [i \in 1..Len(good) |-> b64decode(good[i].base64).data]

DataOf(doc, Is(_)) ==
    LET picked == SelectSeq(doc, Is) IN [i \in 1..Len(picked) |-> picked[i].data]

\* the part of a DOCX after its last page break: the stories
RECURSIVE AfterLastPageBreak(_)
AfterLastPageBreak(doc) ==
    IF \E p \in 1..Len(doc) : IsPageBreak(doc[p])
    THEN AfterLastPageBreak(Tail(doc)) ELSE doc

IsDocxCenteredText(e) == e.kind = "paragraph" /\ e.style = "center"
IsDocxCaption(e) == e.kind = "paragraph" /\ e.style = "Caption"
IsDocxQuestionHeading(e) == e.kind = "paragraph" /\ e.style = "Heading 2"
IsImageEntry(e) == e.html = <<>>

BiographerDocxDone == out.gen \in {"biographer_docx", "biographer_docx_fn"}

\* the base64 texts of the first story's images
FirstStoryBase64 ==
    LET images == Get(stories[1], "images", <<>>)
    IN  [j \in 1..Len(images) |-> images[j].base64]

(* C5: in the DOCX generators and in biography_publisher's generate_zip an *)
(* image whose base64 does not decode, or whose bytes cannot be embedded,  *)
(* is skipped without raising and everything else is produced: the text   *)
(* of every record, and every image that decodes (and, in a DOCX, is an    *)
(* image) with its caption, whether it stands before or after a bad one.   *)
C5_BadImageSkipped ==
    /\ PublisherDocxDone =>
          LET body == AfterLastPageBreak(out.doc)
          IN  /\ DataOf(body, IsPicture) = (IF include_images THEN EmbeddableData ELSE <<>>)
              /\ TextsOf(body, IsDocxCenteredText) =
                    (IF include_images THEN EmbeddableCaptions ELSE <<>>)
              /\ TextsOf(body, IsDocxAnswer) = AllParagraphs
              /\ TextsOf(body, IsDocxHeading) = RunTitles
    /\ BiographerDocxDone =>
          /\ out.status = "ok"
          /\ DataOf(out.doc, IsPicture) = EmbeddableData
          /\ TextsOf(out.doc, IsDocxCaption) = EmbeddableCaptions
          /\ TextsOf(out.doc, IsDocxAnswer) = [k \in 1..Len(stories) |-> stories[k].answer_text]
          /\ TextsOf(out.doc, IsDocxQuestionHeading) =
                [k \in 1..Len(stories) |-> stories[k].question]
    /\ out.gen = "publisher_zip" =>
          /\ out.status = "ok"
          /\ ~IsImageEntry(out.entries[1])
          /\ DataOf(out.entries, IsImageEntry) = (IF include_images THEN DecodableData ELSE <<>>)

\* an undecodable image, then a good one in the same record, then a good one
\* in the next record: the DOCX holds the two good ones
C5_Witness ==
    /\ PublisherDocxDone /\ include_images
    /\ Len(stories) = 2
    /\ FirstStoryBase64 = <<"anBnQ", "anBnQQ==">>
    /\ DataOf(out.doc, IsPicture) = <<"jpgA", "jpgB">>

\* bytes that are no image are skipped by the sidebar's DOCX too
C5_WitnessNotAnImage ==
    /\ out.gen = "biographer_docx"
    /\ Len(stories) = 2
    /\ FirstStoryBase64 = <<"dGV4dA==", "anBnQQ==">>
    /\ DataOf(out.doc, IsPicture) = <<"jpgA", "jpgB">>

----------------------------------------------------------------------------
(* C6: generate_zip of biographer.py never aborts the archive because of   *)
(* one bad image: an image whose base64 does not decode is skipped, and    *)
(* the HTML entry and all other images are written and the archive is      *)
(* returned.  The code decodes without a guard.                            *)
C6_ZipSurvivesBadImage ==
    out.gen \in {"biographer_zip", "biographer_zip_fn"} =>
        /\ out.status = "ok"
        /\ Len(out.entries) >= 1
        /\ DataOf(out.entries, IsImageEntry) = DecodableData

----------------------------------------------------------------------------
(* C7: generate_docx and generate_pdf of biographer.py emit the question   *)
(* line only when format_style is "interview" (the sidebar passes          *)
(* "memoir"); for any other format_style only the answer is emitted.  The  *)
(* code never reads format_style.                                          *)
C7_QuestionOnlyInInterview ==
    /\ out.gen = "biographer_docx" =>
          \A p \in 1..Len(out.doc) : ~IsDocxQuestionHeading(out.doc[p])
    /\ (out.gen = "biographer_docx_fn" /\ format_style # "interview") =>
          \A p \in 1..Len(out.doc) : ~IsDocxQuestionHeading(out.doc[p])
    /\ (out.gen = "biographer_pdf" /\ format_style # "interview") =>
          \A p \in 1..Len(out.doc) :
              ~(out.doc[p].kind = "multi_cell" /\ out.doc[p].style = "B12")

----------------------------------------------------------------------------
(* The archive of biography_publisher's generate_zip.                      *)

\* (i, j): story position and image position, from 0, of the images whose
\* base64 is present and decodes
ArchivedImages ==
    {ij \in (0..(Len(stories) - 1)) \X (0..(MaxImages + 1)) :
        LET images == Get(stories[ij[1] + 1], "images", <<>>)
        IN  ij[2] < Len(images) /\ Decodes(images[ij[2] + 1])}

ExpectedImageName(i, j) ==
    <<"i", "m", "a", "g", "e", "s", "/", "i", "m", "a", "g", "e", "_">>
    \o <<Digit(i), "_", Digit(j)>> \o <<".", "j", "p", "g">>

ExpectedHtmlName ==
    [i \in 1..Len(book_title) |-> IF book_title[i] = " " THEN "_" ELSE book_title[i]]
    \o <<".", "h", "t", "m", "l">>

(* C9: the archive of biography_publisher's generate_zip holds exactly one *)
(* HTML entry, named after the title, whose content is what generate_html  *)
(* returns for the same arguments, and, with include_images, exactly one   *)
(* entry images/image_{i}_{j}.jpg with the decoded bytes for each story    *)
(* position i and image position j whose base64 is present and decodes;    *)
(* the names are pairwise distinct and there is no other entry; without    *)
(* include_images there is no image entry.                                 *)
C9_ArchiveEntries ==
    PublisherZipDone =>
        LET es == out.entries
            wanted == IF include_images THEN ArchivedImages ELSE {}
        IN  /\ Len(es) = 1 + Cardinality(wanted)
            /\ es[1].name = ExpectedHtmlName
            /\ es[1].data = ""
            /\ es[1].html = publisher_generate_html(book_title, author_name, stories,
                                format_style, include_toc, include_images,
                                cover_image, out.year)
            /\ \A k \in 2..Len(es) : IsImageEntry(es[k])
            /\ \A ij \in wanted :
                  Cardinality({k \in 2..Len(es) :
                      /\ es[k].name = ExpectedImageName(ij[1], ij[2])
                      /\ es[k].data =
                            b64decode(stories[ij[1] + 1].images[ij[2] + 1].base64).data}) = 1
            /\ \A k, m \in 1..Len(es) : k # m => es[k].name # es[m].name

\* two decodable images in the first record and one in the second: three
\* image entries beside the HTML
C9_Witness ==
    /\ PublisherZipDone /\ include_images
    /\ Len(stories) = 2
    /\ FirstStoryBase64 = <<"dGV4dA==", "anBnQQ==">>
    /\ [k \in 1..Len(out.entries) |-> out.entries[k].data] = <<"", "text", "jpgA", "jpgB">>

----------------------------------------------------------------------------
(* The cover of a generated document.                                      *)

\* the elements before the first one that satisfies Is
Before(doc, Is(_)) ==
    LET hits == {p \in 1..Len(doc) : Is(doc[p])}
    IN  IF hits = {} THEN doc
        ELSE SubSeq(doc, 1, (CHOOSE p \in hits : \A q \in hits : p <= q) - 1)

IsH1(e) == e.kind = "h1"
IsImg(e) == e.kind = "img"
IsDocxTitle(e) == e.kind = "paragraph" /\ e.style = "title"

\* the bytes of the images on the cover of an HTML document
HtmlCoverImages(doc) ==
    LET imgs == SelectSeq(Before(doc, IsH1), IsImg)
    IN  [i \in 1..Len(imgs) |-> b64decode(imgs[i].data).data]

DocxCoverImages(doc) == DataOf(Before(doc, IsDocxTitle), IsPicture)

(* C8: on the publisher page, with cover type "uploaded" and a cover image *)
(* supplied (a file whose bytes are an image), the image's bytes are       *)
(* embedded in the cover of the generated HTML and DOCX; with cover type   *)
(* "simple" no cover image is passed to a generator and the cover of the   *)
(* HTML, of the DOCX and of the archive's HTML holds no image, whatever    *)
(* file the uploader still holds.                                          *)
C8_CoverFollowsChoice ==
    /\ (cover_choice = "uploaded" /\ IsImage(uploaded_cover)) =>
          /\ PublisherHtmlDone => HtmlCoverImages(out.doc) = <<uploaded_cover>>
          /\ PublisherDocxDone => DocxCoverImages(out.doc) = <<uploaded_cover>>
    /\ cover_choice = "simple" =>
          /\ cover_image = ""
          /\ PublisherHtmlDone => HtmlCoverImages(out.doc) = <<>>
          /\ PublisherDocxDone => DocxCoverImages(out.doc) = <<>>
          /\ PublisherZipDone => HtmlCoverImages(out.entries[1].html) = <<>>

\* "uploaded" with an image: the DOCX opens with it
C8_Witness ==
    /\ PublisherDocxDone
    /\ cover_choice = "uploaded" /\ uploaded_cover = "jpgA"
    /\ IsPicture(out.doc[1]) /\ out.doc[1].data = "jpgA"

\* back to "simple" with the file still held: the HTML has no cover image
C8_WitnessSimple ==
    /\ PublisherHtmlDone
    /\ cover_choice = "simple" /\ uploaded_cover = "jpgA"
    /\ ~IsImg(out.doc[2])

----------------------------------------------------------------------------
(* C11: generate_docx, generate_html and generate_zip of the publisher     *)
(* leave the story list, its records and images, the book metadata and the *)
(* session state as they were: every step that shows a result keeps all    *)
(* inputs, and the result is the generator's value on those inputs, so it  *)
(* is the same whatever was generated before it in the page view, also     *)
(* after a failed DOCX.                                                    *)
C11_ExportsLeaveInputs ==
    [][out' # NoResult =>
          /\ inputs' = inputs
          /\ (out'.gen = "publisher_html") =>
                out' = Result("publisher_html", "ok", out'.year,
                              publisher_generate_html(book_title, author_name, stories,
                                  format_style, include_toc, include_images,
                                  cover_image, out'.year), <<>>)
          /\ (out'.gen = "publisher_docx" /\ out'.status = "ok") =>
                out' = Result("publisher_docx", "ok", out'.year,
                              publisher_generate_docx(book_title, author_name, stories,
                                  format_style, include_toc, include_images,
                                  cover_image, out'.year), <<>>)
          /\ (out'.gen = "publisher_zip") =>
                out' = Result("publisher_zip", "ok", out'.year, <<>>,
                              publisher_generate_zip(book_title, author_name, stories,
                                  format_style, include_toc, include_images,
                                  cover_image, out'.year))]_vars

\* an HTML with images generated after a DOCX of the same page view failed
C11_Witness ==
    /\ PublisherHtmlDone
    /\ earlier = "failed"
    /\ include_images
    /\ \E p \in 1..Len(out.doc) : out.doc[p].kind = "img" /\ out.doc[p].style = "story-image"

----------------------------------------------------------------------------
(* C12: when DOCX generation hits a library or environment error, the      *)
(* publisher's generate_docx lets it reach the caller as an exception, and *)
(* a missing docx library reaches the caller as an outcome of its own.     *)
(* The code catches both, shows a message and returns None for both.       *)
C12_DocxErrorReachesCaller ==
    (out.gen = "publisher_docx" /\ out.error # "") => out.status = "raised"

----------------------------------------------------------------------------
\* the records whose session title occurs in no earlier record
FirstOccurrences ==
    {k \in 1..Len(stories) :
        \A j \in 1..(k - 1) : stories[j].session_title # stories[k].session_title}

\* the distinct session titles, in order of first occurrence
DistinctTitles ==
    LET firsts == Ascending(FirstOccurrences)
    IN  [i \in 1..Len(firsts) |-> stories[firsts[i]].session_title]

IsHtmlTocEntry(e) == e.kind = "li"
IsDocxTocEntry(e) == e.kind = "paragraph" /\ e.style = "List Bullet"
IsTocTitle(e) == e.kind = "toc" \/ (e.kind = "paragraph" /\ e.style = "toc title")

(* C13: in generate_docx and generate_html of biography_publisher, with    *)
(* include_toc the table of contents has exactly one entry per distinct    *)
(* session_title, in order of first occurrence, also when a title recurs   *)
(* after another one; without include_toc there is no table of contents    *)
(* and no entry.                                                           *)
C13_TocEntries ==
    /\ PublisherHtmlDone =>
          /\ TextsOf(out.doc, IsHtmlTocEntry) = (IF include_toc THEN DistinctTitles ELSE <<>>)
          /\ include_toc <=> \E p \in 1..Len(out.doc) : IsTocTitle(out.doc[p])
    /\ PublisherDocxDone =>
          /\ TextsOf(out.doc, IsDocxTocEntry) = (IF include_toc THEN DistinctTitles ELSE <<>>)
          /\ include_toc <=> \E p \in 1..Len(out.doc) : IsTocTitle(out.doc[p])

\* titles A, B, A: three headings but two entries, A then B
C13_Witness ==
    /\ PublisherHtmlDone /\ include_toc
    /\ [k \in 1..Len(stories) |-> stories[k].session_title] = <<<<"A">>, <<"B">>, <<"A">>>>
    /\ TextsOf(out.doc, IsHtmlTocEntry) = <<<<"A">>, <<"B">>>>
    /\ TextsOf(out.doc, IsH2) = <<<<"A">>, <<"B">>, <<"A">>>>

\* the same story list without the table of contents
C13_WitnessNoToc ==
    /\ PublisherDocxDone /\ ~include_toc
    /\ Len(stories) = 3
    /\ TextsOf(out.doc, IsDocxTocEntry) = <<>>

----------------------------------------------------------------------------
\* the story list is sorted by session: no title heads two runs
SortedBySession == Len(RunTitles) = Len(DistinctTitles)

(* C14: in the HTML of generate_html with include_toc and a story list     *)
(* sorted by session, every link of the table of contents has a target     *)
(* that is the id of exactly one <h2>, and that <h2> is the heading of the *)
(* session the link names.  The slug drops case, "?", "!" and "," and      *)
(* turns blanks into "-", so distinct titles can share one.                *)
C14_TocLinksResolve ==
    (PublisherHtmlDone /\ include_toc /\ SortedBySession) =>
        \A p \in 1..Len(out.doc) :
            IsHtmlTocEntry(out.doc[p]) =>
                LET targets == {q \in 1..Len(out.doc) :
                                   IsH2(out.doc[q]) /\ out.doc[q].id = out.doc[p].id}
                IN  /\ Cardinality(targets) = 1
                    /\ \A q \in targets : out.doc[q].text = out.doc[p].text

----------------------------------------------------------------------------
\* the characters of the model's texts that latin-1, the encoding of the
\* PDF's fonts and of the returned bytes, cannot represent
Unrepresentable == {"U+20AC"}

Representable(s) == SelectSeq(s, LAMBDA c : c \notin Unrepresentable)

IsPdfCell(e) == e.kind = "cell"
IsPdfText(e) == e.kind = "multi_cell"

(* C15: generate_pdf does not raise because of character data, and from    *)
(* the title, author, question and answer it removes exactly the           *)
(* characters the PDF's single-byte encoding cannot represent, keeping     *)
(* every representable character in order.  The code keeps ord(c) < 128    *)
(* only, so the representable characters above 127 are removed too.        *)
C15_PdfKeepsRepresentable ==
    out.gen = "biographer_pdf" =>
        /\ out.status = "ok"
        /\ TextsOf(out.doc, IsPdfCell) =
              <<IF Representable(book_title) # <<>> THEN Representable(book_title)
                ELSE <<"M", "y", " ", "S", "t", "o", "r", "y">>,
                IF Representable(author_name) # <<>> THEN Representable(author_name)
                ELSE <<"A", "u", "t", "h", "o", "r">>>>
        /\ TextsOf(out.doc, IsPdfText) =
              Concat([k \in 1..Len(stories) |->
                        <<Representable(stories[k].question),
                          Representable(stories[k].answer_text)>>])

----------------------------------------------------------------------------
(* C16: the markup stripping is idempotent: applied to its own output it   *)
(* returns that output, for every text over "<", ">" and letters, plain,   *)
(* nested, adjacent or unterminated.                                       *)
C16_StripIdempotent ==
    restripped # None => restripped = stripped

\* "<<a>a>": the tag "<<a>" is removed and "a>" is left, twice
C16_Witness ==
    /\ markup = <<"<", "<", "a", ">", "a", ">">>
    /\ stripped = <<"a", ">">>
    /\ restripped = <<"a", ">">>

----------------------------------------------------------------------------
\* the positions of s inside a tag: a "<", one or more characters other than
\* ">", and the first ">" after it
InTag(s) ==
    {p \in 1..Len(s) :
        \E i \in 1..p, j \in p..Len(s) :
            /\ s[i] = "<" /\ s[j] = ">" /\ j >= i + 2
            /\ \A q \in (i + 1)..(j - 1) : s[q] # ">"}

\* the characters of s outside every tag, in order
OutsideTags(s) ==
    LET kept == Ascending(1..Len(s) \ InTag(s))
    IN  [k \in 1..Len(kept) |-> s[kept[k]]]

(* C17: the markup stripping removes every well-formed tag and nothing     *)
(* else: the characters outside the tags are kept in order, the sample     *)
(* "<p>Hello <b>World</b></p>" becomes "Hello World", and a "<" with no    *)
(* ">" after it stays, with all the text after it.                         *)
C17_StripRemovesTagsOnly ==
    stripped # None =>
        /\ stripped = OutsideTags(markup)
        /\ markup = HelloWorldMarkup =>
              stripped = <<"H", "e", "l", "l", "o", " ", "W", "o", "r", "l", "d">>
        /\ \A i \in 1..Len(markup) :
              (markup[i] = "<" /\ \A j \in (i + 1)..Len(markup) : markup[j] # ">") =>
                  /\ Len(stripped) >= Len(markup) - i + 1
                  /\ SubSeq(stripped, Len(stripped) - (Len(markup) - i), Len(stripped))
                        = SubSeq(markup, i, Len(markup))

C17_Witness ==
    /\ markup = HelloWorldMarkup
    /\ stripped = <<"H", "e", "l", "l", "o", " ", "W", "o", "r", "l", "d">>

\* a tag, then an unterminated one: "<a>a<a" becomes "a<a"
C17_WitnessUnterminated ==
    /\ markup = <<"<", "a", ">", "a", "<", "a">>
    /\ stripped = <<"a", "<", "a">>

----------------------------------------------------------------------------
(* Accounts made in the admin dashboard.                                   *)

\* the accounts of the "Add User" form that have this email and password
AdminAccountsFor(email, password) ==
    {u \in DOMAIN account_files :
        /\ account_files[u].subscription # "none"
        /\ account_files[u].email = str_strip(str_lower(email))
        /\ verify_password(account_files[u].password_hash, password)}

\* C19: once the admin's "Add User" form has been submitted with an email and
\* a password, a login with that email and password succeeds and gives the
\* account the form created.
C19_AdminUserCanLogIn ==
    [][(/\ auth' # auth
        /\ auth'.form = "login"
        /\ AdminAccountsFor(auth'.email, auth'.password) # {})
       => (/\ auth'.success
           /\ auth'.user_id \in AdminAccountsFor(auth'.email, auth'.password))]_vars

\* the accounts of the "Sign Up" form that have this email and password
SignUpAccountsFor(email, password) ==
    {u \in DOMAIN account_files :
        /\ account_files[u].subscription = "none"
        /\ account_files[u].email = str_strip(str_lower(email))
        /\ verify_password(account_files[u].password_hash, password)}

\* C21: whatever sign-ups, logins and admin deletions came before, a login
\* with the email and password of an account that the sign-up form created
\* and that has not been deleted succeeds and gives that account; so does
\* the login of an account registered with an email that a deletion freed.
C21_SignedUpUserCanLogIn ==
    [][(/\ auth' # auth
        /\ auth'.form = "login"
        /\ SignUpAccountsFor(auth'.email, auth'.password) # {})
       => (/\ auth'.success
           /\ auth'.user_id \in SignUpAccountsFor(auth'.email, auth'.password))]_vars

----------------------------------------------------------------------------
(* The story list the application exports.                                 *)

\* C18: the story list handed to the exporters is sorted by session: the
\* stories of a session are contiguous, the sessions come in bank order, no
\* session title heads two runs, and no two sessions share a heading; this
\* after any sequence of bank loads, bank edits and saves.
C18_ExportSortedBySession ==
    logged_in =>
        LET rows == ExportRows(current_question_bank, 1)
            n == Len(rows)
            Title(i) == rows[i].story.session_title
        IN  /\ \A i, j \in 1..n : i < j => rows[i].session <= rows[j].session
            /\ \A i, j, k \in 1..n :
                   (i < j /\ j < k /\ Title(i) = Title(k)) => Title(j) = Title(i)
            /\ \A i, j \in 1..n :
                   Title(i) = Title(j) => rows[i].session = rows[j].session

----------------------------------------------------------------------------
(* The answers a user has saved.                                           *)

\* the user's data file holds this answer to question q of session sid
Stored(uid, sid, q, answer) ==
    /\ uid \in DOMAIN user_files
    /\ sid \in DOMAIN user_files[uid]
    /\ \E i \in 1..Len(user_files[uid][sid].questions) :
           /\ user_files[uid][sid].questions[i].question = q
           /\ user_files[uid][sid].questions[i].answer = answer

\* C20: an answer whose save_response returned True stays in the user's
\* stored data, through logout and login, reloads and question bank loads,
\* until it is deleted or saved again.
C20_SavedAnswerStays ==
    \A key \in DOMAIN durable : Stored(key[1], key[2], key[3], durable[key])

----------------------------------------------------------------------------
(* A second user in the same browser session.                              *)

\* C22: after a logout and the login of another user in the same browser
\* session, what the session holds belongs to the user logged in (here the
\* vignette manager and the responses), and no step writes the files of
\* anybody else.
C22_SessionBelongsToUser ==
    [][logged_in' =>
          /\ vignette_manager'.user_id \in {0, user_id'}
          /\ \A u \in UserIds :
                 (u \in DOMAIN vignette_files' /\ u # user_id')
                     => (u \in DOMAIN vignette_files
                         /\ vignette_files'[u] = vignette_files[u])
          /\ \A u \in UserIds :
                 (u \in DOMAIN user_files' /\ u # user_id')
                     => (u \in DOMAIN user_files /\ user_files'[u] = user_files[u])]_vars

\* C23: when a user is logged in, the main page can resolve the current
\* question: current_session is an index of the current bank's sessions and,
\* when no custom topic overrides the question, current_question is an index
\* of that session's questions, so that the page never indexes past the end
C23_CurrentQuestionResolves ==
    logged_in =>
        /\ current_session_index \in 0..(Len(current_question_bank) - 1)
        /\ current_question_override = None =>
               current_question \in
                   0..(Len(current_question_bank[current_session_index + 1].questions) - 1)

\* C24: an answer stays attached to the session it was written for: every
\* exported record carries, as session_title, the title stored with the
\* answers in responses[session_id], the title of the session under which
\* the answer was saved
C24_ExportedUnderSavedTitle ==
    LET rows == ExportRows(current_question_bank, 1)
    IN  \A i \in 1..Len(rows) :
            rows[i].story.session_title =
                responses[current_question_bank[rows[i].session].id].title

\* C25: for the user logged in, stats.total_words of the account equals the
\* number of words of the answers stored in the user's data file, whatever
\* was saved, saved again or deleted
C25_TotalWordsMatchAnswers ==
    logged_in => total_words[user_id] = StoredWords(user_id)

\* C26: restoring a backup is a round trip: after restore_from_backup has
\* succeeded, the session's responses, every session under the key it had,
\* and the user's account with its statistics are what they were when
\* create_backup made the backup
C26_RestoreIsRoundTrip ==
    [][RestoreFromBackup =>
          /\ responses' = at_backup.responses
          /\ responses_str' = at_backup.responses_str
          /\ account_files'[user_id] = at_backup.user_account
          /\ total_words'[user_id] = at_backup.total_words]_vars

\* C27: the writers of a data file keep each other's fields: a write by
\* save_user_data leaves the vignettes and the beta_feedback of every file
\* as they were; a write by save_feedback leaves the responses and the
\* vignettes of the file, the feedback of every other session, and the
\* other users' files as they were
C27_WritersKeepOtherFields ==
    [][/\ last_writer' = "save_user_data" => user_file_fields' = user_file_fields
       /\ last_writer' = "save_feedback" =>
              /\ Get(user_files', user_id, EmptyDict) = Get(user_files, user_id, EmptyDict)
              /\ \A u \in UserIds :
                     /\ user_file_fields'[u].vignettes = user_file_fields[u].vignettes
                     /\ u # user_id => user_file_fields'[u] = user_file_fields[u]
              /\ \E session_id \in DOMAIN user_file_fields'[user_id].beta_feedback :
                     \A k \in (DOMAIN user_file_fields'[user_id].beta_feedback
                               \cup DOMAIN user_file_fields[user_id].beta_feedback)
                              \ {session_id} :
                         /\ k \in DOMAIN user_file_fields[user_id].beta_feedback
                         /\ k \in DOMAIN user_file_fields'[user_id].beta_feedback
                         /\ user_file_fields'[user_id].beta_feedback[k] =
                                user_file_fields[user_id].beta_feedback[k]]_vars

\* save_user_data has written a file that holds an answer and the feedback
\* of both sessions
C27_SavedOverFeedback ==
    /\ last_writer = "save_user_data"
    /\ DOMAIN user_file_fields[1].beta_feedback = {1, 2}
    /\ 1 \in DOMAIN user_files
    /\ \E sid \in DOMAIN user_files[1] : user_files[1][sid].questions # <<>>

\* C28: the content of the admin dashboard is used only while
\* admin_authenticated is true; the flag becomes true only by a Login click
\* with the username and the password equal to the configured secrets,
\* never when a secret is missing or empty, and it is false after Logout
C28_AdminGate ==
    [][/\ admin_click'.button \in {"Create User", "Yes, Delete"} /\ admin_click' # admin_click
          => admin_authenticated /\ admin_authenticated'
       /\ account_files' # account_files => admin_authenticated
       /\ (~admin_authenticated /\ admin_authenticated')
          => /\ admin_click'.button = "Login"
             /\ admin_click'.username = admin_secrets.ADMIN_USERNAME
             /\ admin_click'.password = admin_secrets.ADMIN_PASSWORD
             /\ admin_secrets.ADMIN_USERNAME \notin {None, <<>>}
             /\ admin_secrets.ADMIN_PASSWORD \notin {None, <<>>}
       /\ admin_click'.button = "Logout" => ~admin_authenticated']_vars

\* the admin has logged in and deleted a user
C28_AdminDeletedUser ==
    /\ admin_authenticated
    /\ admin_click.button = "Yes, Delete"
    /\ \E u \in UserIds : u \notin DOMAIN account_files

====
